---------------------------- MODULE Spec2Model ----------------------------
(***************************************************************************)
(* Sheets <-> MySQL two-way sync engine (Superjoin-synced).                *)
(*                                                                         *)
(* The module holds several specifications over one set of variables:      *)
(*   SpecSanitize  sanitizeIdentifier applied once and twice to drawn      *)
(*                 header strings (utils/columnUtils)                      *)
(*   SpecGuard     the loop-prevention guard chain and the LWW arbiter     *)
(*                 applied to drawn (change, row, clock, lock) inputs      *)
(*   SpecIngest    the sheet-to-db worker on one drawn job, row and lock   *)
(*   Spec          one synced row, the sheet cell, the change log, the     *)
(*                 two queues, the db-to-sheet workers and the clock       *)
(*   SpecHash      computeRowHash applied to two drawn rows                *)
(*   SpecCoerce    coerceValue applied to drawn values and column types    *)
(*   SpecRegistration  two callers of ensureSheetRegistration and          *)
(*                 ensureColumnExistsOnTable, statement by statement       *)
(*   SpecMapping   ensureColumnMapping calls made one after another, and   *)
(*                 column removals                                         *)
(*   SpecWebhook   POST /webhook on drawn request bodies                   *)
(*   SpecQueue     the attempts of the jobs of the two BullMQ queues       *)
(*   SpecOutage    one queue while every attempt of its jobs fails         *)
(*   SpecLimiter   the db-to-sheet worker's rate limiter over two windows  *)
(*   SpecDelivery  the delivery of one logged store edit, with one sheet   *)
(*                 change at most arriving meanwhile                       *)
(*   SpecSequential  one queue whose worker takes one job at a time        *)
(*   SpecLock      a sheet change queued behind a lock nobody releases     *)
(*   SpecInference ensureColumnMapping called with the inferred type of    *)
(*                 drawn samples                                           *)
(*   SpecInfer     inferColumnType applied to drawn values                 *)
(*   SpecFailure   db-to-sheet jobs whose deliveries fail in two ways      *)
(*   SpecCollision ensureSheetRegistration on sheet names that sanitize    *)
(*                 alike                                                   *)
(*   SpecColumns   ensureColumnMapping followed by                         *)
(*                 ensureColumnExistsOnTable, one caller                   *)
(*   SpecRace      two callers of ensureColumnMapping                      *)
(*   SpecStatus    the db-to-sheet jobs of one row, statement by statement *)
(*   SpecLifecycle starting and stopping the db-to-sheet worker            *)
(*   SpecCleanup   sync_change_log under the daily cleanup event           *)
(* Strings whose characters matter are sequences of one-character strings. *)
(***************************************************************************)
EXTENDS Integers, Sequences, FiniteSets, TLC

VARIABLES
    arg,        \* pure-function probes: the drawn input
    res,        \* pure-function probes: the results computed so far
    pc,         \* pure-function probes: which step has been taken
    now,        \* the clock, in milliseconds
    row,        \* the synced row of the backing table: its cell and its _ columns
    sheet,      \* the cell of the external document
    changeLog,  \* sync_change_log, in insertion order
    s2dQueue,   \* the sheet-to-db queue, in arrival order
    d2sJobs,    \* the db-to-sheet jobs ever added, in the order they were added
    conflicts,  \* sync_conflicts, in insertion order
    lock,       \* the sync:lock key of the row, or NoLock
    budget,     \* the user edits still to come, per side
    syncSheets,     \* sync_sheets, in insertion order
    schemaRegistry, \* sync_schema_registry, in insertion order
    tables,         \* the backing tables, by name: their columns and row count
    calls           \* the SchemaManager call each caller is in, and where

pureVars == <<arg, res, pc>>
sysVars == <<now, row, sheet, changeLog, s2dQueue, d2sJobs, conflicts, lock, budget>>
schemaVars == <<syncSheets, schemaRegistry, tables, calls>>
vars == <<arg, res, pc, now, row, sheet, changeLog, s2dQueue, d2sJobs, conflicts, lock, budget,
          syncSheets, schemaRegistry, tables, calls>>

\* the specifications without SchemaManager leave the schema aside
SchemaAside ==
    /\ syncSheets = <<>>
    /\ schemaRegistry = <<>>
    /\ tables = <<>>
    /\ calls = <<>>

\* the specifications of the pure functions leave the engine's state aside
EngineAside ==
    /\ now = 0
    /\ row = <<>>
    /\ sheet = 0
    /\ changeLog = <<>>
    /\ s2dQueue = <<>>
    /\ d2sJobs = <<>>
    /\ conflicts = <<>>
    /\ lock = <<>>
    /\ budget = <<>>
    /\ SchemaAside

\* the specifications of the engine leave the probes aside
ProbesAside ==
    /\ arg = <<>>
    /\ res = <<>>
    /\ pc = "engine"

-----------------------------------------------------------------------------
(* Characters and strings                                                  *)

LowerSeq ==
    <<"a", "b", "c", "d", "e", "f", "g", "h", "i", "j", "k", "l", "m">>
        \o <<"n", "o", "p", "q", "r", "s", "t", "u", "v", "w", "x", "y", "z">>
UpperSeq ==
    <<"A", "B", "C", "D", "E", "F", "G", "H", "I", "J", "K", "L", "M">>
        \o <<"N", "O", "P", "Q", "R", "S", "T", "U", "V", "W", "X", "Y", "Z">>
Lower == {LowerSeq[i] : i \in 1..Len(LowerSeq)}
Upper == {UpperSeq[i] : i \in 1..Len(UpperSeq)}
Digit == {"0", "1", "2", "3", "4", "5", "6", "7", "8", "9"}
Space == {" "}
IdentChars == Lower \cup Digit \cup {"_"}

\* String.prototype.toLowerCase on one character
toLowerCase(c) ==
    IF c \in Upper THEN LowerSeq[CHOOSE i \in 1..Len(UpperSeq) : UpperSeq[i] = c] ELSE c

Rep(c, k) == [i \in 1..k |-> c]

SeqsUpTo(S, n) == UNION {[1..k -> S] : k \in 0..n}

RECURSIVE LStrip(_, _)
LStrip(s, S) == IF s = <<>> \/ Head(s) \notin S THEN s ELSE LStrip(Tail(s), S)

RECURSIVE RStrip(_, _)
RStrip(s, S) ==
    IF s = <<>> \/ s[Len(s)] \notin S THEN s ELSE RStrip(SubSeq(s, 1, Len(s) - 1), S)

\* String.prototype.substring(0, n)
substring(s, n) == IF Len(s) <= n THEN s ELSE SubSeq(s, 1, n)

\* replace(/[^a-z0-9_]+/g, '_'): every maximal run of other characters becomes one '_'
RECURSIVE ReplaceNonIdent(_, _)
ReplaceNonIdent(s, inRun) ==
    IF s = <<>> THEN <<>>
    ELSE IF Head(s) \in IdentChars THEN <<Head(s)>> \o ReplaceNonIdent(Tail(s), FALSE)
    ELSE IF inRun THEN ReplaceNonIdent(Tail(s), TRUE)
    ELSE <<"_">> \o ReplaceNonIdent(Tail(s), TRUE)

\* replace(/_+/g, '_')
RECURSIVE CollapseUnderscores(_, _)
CollapseUnderscores(s, inRun) ==
    IF s = <<>> THEN <<>>
    ELSE IF Head(s) # "_" THEN <<Head(s)>> \o CollapseUnderscores(Tail(s), FALSE)
    ELSE IF inRun THEN CollapseUnderscores(Tail(s), TRUE)
    ELSE <<"_">> \o CollapseUnderscores(Tail(s), TRUE)

-----------------------------------------------------------------------------
(* utils/columnUtils: sanitizeIdentifier                                   *)

MaxIdentLen == 64

ColFallback == <<"c", "o", "l">>
ColPrefix == <<"c", "o", "l", "_">>

\* const trimmed = input.trim().toLowerCase()
Trimmed(input) ==
    LET t == RStrip(LStrip(input, Space), Space)
    IN  [i \in 1..Len(t) |-> toLowerCase(t[i])]

\* const replaced = trimmed.replace(/[^a-z0-9_]+/g, '_').replace(/_+/g, '_')
Replaced(trimmed) == CollapseUnderscores(ReplaceNonIdent(trimmed, FALSE), FALSE)

\* const noEdgeUnderscores = replaced.replace(/^_+|_+$/g, '')
NoEdgeUnderscores(replaced) == RStrip(LStrip(replaced, {"_"}), {"_"})

\* return prefixed.substring(0, 64)
Truncate(s) == substring(s, MaxIdentLen)

sanitizeIdentifier(input) ==
    LET noEdge == NoEdgeUnderscores(Replaced(Trimmed(input)))
        safe == IF Len(noEdge) = 0 THEN ColFallback ELSE noEdge
        prefixed == IF Head(safe) \in Digit THEN ColPrefix \o safe ELSE safe
    IN  Truncate(prefixed)

-----------------------------------------------------------------------------
(* SpecSanitize: sanitizeIdentifier on drawn headers                       *)

MaxHead == 1
MaxTail == 2

DrawChars == {"a", "B", "7", "_", " ", "#"}

\* lengths of the run of 'a' between the drawn head and the drawn tail: none, or
\* enough to bring the identifier to the 64-character cut
Pads == {0, MaxIdentLen - 6, MaxIdentLen - 2, MaxIdentLen - 1}

OrderHeader == <<"O", "r", "d", "e", "r", " ", "#">>

SanitizeInputs ==
    {h \o Rep("a", k) \o t :
        h \in SeqsUpTo(DrawChars, MaxHead), k \in Pads, t \in SeqsUpTo(DrawChars, MaxTail)}
    \cup {OrderHeader}

InitSanitize ==
    /\ arg \in SanitizeInputs
    /\ res = <<>>
    /\ pc = "in"
    /\ EngineAside

SanitizeOnce ==
    /\ pc = "in"
    /\ res' = <<sanitizeIdentifier(arg)>>
    /\ pc' = "once"
    /\ UNCHANGED <<arg, sysVars, schemaVars>>

SanitizeTwice ==
    /\ pc = "once"
    /\ res' = Append(res, sanitizeIdentifier(res[1]))
    /\ pc' = "twice"
    /\ UNCHANGED <<arg, sysVars, schemaVars>>

NextSanitize == SanitizeOnce \/ SanitizeTwice

SpecSanitize == InitSanitize /\ [][NextSanitize]_vars

-----------------------------------------------------------------------------
(* Claims about sanitizeIdentifier                                         *)

\* the identifier before the final substring(0, 64)
Untruncated(input) ==
    LET noEdge == NoEdgeUnderscores(Replaced(Trimmed(input)))
        safe == IF Len(noEdge) = 0 THEN ColFallback ELSE noEdge
    IN  IF Head(safe) \in Digit THEN ColPrefix \o safe ELSE safe

\* C9: sanitize is idempotent: for every input string x, also one longer than 64
\* characters whose 64-character truncation ends in '_',
\* sanitizeIdentifier(sanitizeIdentifier(x)) = sanitizeIdentifier(x).
C9_SanitizeIdempotent == pc = "twice" => res[2] = res[1]

CanonicalShape(s) ==
    /\ Len(s) >= 1
    /\ Len(s) <= MaxIdentLen
    /\ \A i \in 1..Len(s) : s[i] \in IdentChars
    /\ s[1] \notin Digit
    /\ s[1] # "_"
    /\ s[Len(s)] # "_"
    /\ \A i \in 1..(Len(s) - 1) : ~(s[i] = "_" /\ s[i + 1] = "_")

\* no character of the input is in [a-z0-9] once lower-cased
NoAlnum(input) ==
    \A i \in 1..Len(input) : toLowerCase(input[i]) \notin (Lower \cup Digit)

\* C10: for every input string sanitizeIdentifier returns an identifier of the
\* canonical shape (non-empty, at most 64 characters, only [a-z0-9_], no leading
\* digit, no leading or trailing '_', no run of '_'); an input that is empty or has
\* no [a-z0-9] character gives exactly 'col'; the header 'Order #' gives 'order'.
C10_SanitizeCanonical ==
    pc # "in" =>
        /\ CanonicalShape(res[1])
        /\ (NoAlnum(arg) => res[1] = ColFallback)
        /\ (arg = OrderHeader => res[1] = <<"o", "r", "d", "e", "r">>)

\* what does hold: both properties for every input the cut does not shorten
ShortSanitizeIdempotent ==
    (pc = "twice" /\ Len(Untruncated(arg)) <= MaxIdentLen) => res[2] = res[1]

ShortSanitizeCanonical ==
    (pc # "in" /\ Len(Untruncated(arg)) <= MaxIdentLen) =>
        /\ CanonicalShape(res[1])
        /\ (NoAlnum(arg) => res[1] = ColFallback)
        /\ (arg = OrderHeader => res[1] = <<"o", "r", "d", "e", "r">>)

\* a header longer than the cut has been sanitized twice
LongHeaderSanitized == pc = "twice" /\ Len(Untruncated(arg)) > MaxIdentLen

-----------------------------------------------------------------------------
(* utils/hash: computeRowHash.  Row data is a sequence of <<key, value>>   *)
(* pairs in insertion order; a value is a number, undefined, or a nested   *)
(* object (again a sequence of pairs).  The JSON text is the sequence of   *)
(* the pairs written; SHA-256 is taken to be injective, so a hash is the   *)
(* text hashed.                                                            *)

Num(n) == [num |-> n]
Undefined == [undefined |-> TRUE]
Obj(pairs) == [obj |-> pairs]

KeyRank(k) == IF k = "a" THEN 1 ELSE IF k = "b" THEN 2 ELSE 3

Keys(rowData) == [i \in 1..Len(rowData) |-> rowData[i][1]]

\* Array.prototype.sort on the keys (code-unit order)
RECURSIVE SortKeys(_)
SortKeys(ks) ==
    IF ks = <<>> THEN <<>>
    ELSE LET m == CHOOSE i \in 1..Len(ks) : \A j \in 1..Len(ks) : KeyRank(ks[i]) <= KeyRank(ks[j])
         IN  <<ks[m]>> \o SortKeys([i \in 1..(Len(ks) - 1) |-> IF i < m THEN ks[i] ELSE ks[i + 1]])

\* JSON.stringify with an array replacer, the properties of one object: those named
\* in the list, in the list's order, an undefined value left out; the same list
\* filters the properties of every nested object
RECURSIVE SerializeProperties(_, _, _)
SerializeProperties(object, rest, keyList) ==
    IF rest = <<>> THEN <<>>
    ELSE LET here == {i \in 1..Len(object) : object[i][1] = Head(rest)}
             v == object[CHOOSE i \in here : TRUE][2]
         IN  (IF here = {} THEN <<>>
              ELSE IF "undefined" \in DOMAIN v THEN <<>>
              ELSE IF "obj" \in DOMAIN v
                   THEN <<<<Head(rest), Obj(SerializeProperties(v.obj, keyList, keyList))>>>>
              ELSE <<<<Head(rest), v>>>>)
             \o SerializeProperties(object, Tail(rest), keyList)

\* JSON.stringify(rowData, keyList)
JSONStringify(rowData, keyList) == SerializeProperties(rowData, keyList, keyList)

\* the mutant of computeRowHash: the keys are not sorted
computeRowHashUnsorted(rowData) == JSONStringify(rowData, Keys(rowData))

computeRowHash(rowData) == JSONStringify(rowData, SortKeys(Keys(rowData)))

-----------------------------------------------------------------------------
(* Conflict resolution (ARCHITECTURE.md section 4) and the guard chain     *)

SYNC_COOLDOWN_MS == 5000

Abs(x) == IF x < 0 THEN 0 - x ELSE x

\* SyncDirection of a change, by its source
DirectionOf(source) == IF source = "SHEET" THEN "SHEET_TO_DB" ELSE "DB_TO_SHEET"

OppositeOf(direction) == IF direction = "SHEET_TO_DB" THEN "DB_TO_SHEET" ELSE "SHEET_TO_DB"

\* the mutant of IsEcho: the origin comparison is inverted
IsEchoInverted(incoming, existing) ==
    /\ incoming.source # existing.lastModifiedBy
    /\ Abs(incoming.timestamp - existing.lastModifiedAt) < SYNC_COOLDOWN_MS

\* resolveConflict, first test: same origin within cooldown = echo
IsEcho(incoming, existing) ==
    /\ incoming.source = existing.lastModifiedBy
    /\ Abs(incoming.timestamp - existing.lastModifiedAt) < SYNC_COOLDOWN_MS

\* the mutant of LWWArbiter: an equal timestamp counts as newer
LWWArbiterGeq(incoming, existing) ==
    IF incoming.timestamp >= existing.lastModifiedAt THEN "APPLY"
    ELSE IF incoming.timestamp < existing.lastModifiedAt
            /\ incoming.source # existing.lastModifiedBy THEN "CONFLICT"
    ELSE "SKIP"

\* resolveConflict, the tests after the echo test
LWWArbiter(incoming, existing) ==
    IF incoming.timestamp > existing.lastModifiedAt THEN "APPLY"
    ELSE IF incoming.timestamp < existing.lastModifiedAt
            /\ incoming.source # existing.lastModifiedBy THEN "CONFLICT"
    ELSE "SKIP"

resolveConflict(incoming, existing) ==
    IF IsEcho(incoming, existing) THEN "SKIP" ELSE LWWArbiter(incoming, existing)

\* the mutant of GuardChain: lock contention is reported as a conflict
GuardChainLockConflict(incoming, existing, liveLock) ==
    IF IsEcho(incoming, existing) THEN "SKIP"
    ELSE IF computeRowHash(incoming.values) = existing.rowHash THEN "SKIP"
    ELSE IF liveLock = OppositeOf(DirectionOf(incoming.source)) THEN "CONFLICT"
    ELSE LWWArbiter(incoming, existing)

\* The guard chain: origin echo, content hash, mutual exclusion, LWW arbiter.
\* liveLock is the direction holding a live lock on the row, or "NONE".
GuardChain(incoming, existing, liveLock) ==
    IF IsEcho(incoming, existing) THEN "SKIP"
    ELSE IF computeRowHash(incoming.values) = existing.rowHash THEN "SKIP"
    ELSE IF liveLock = OppositeOf(DirectionOf(incoming.source)) THEN "REQUEUE"
    ELSE LWWArbiter(incoming, existing)

-----------------------------------------------------------------------------
(* SpecGuard: the guard chain on drawn changes, rows, clocks and locks     *)

Sources == {"SHEET", "DATABASE"}
ModifiedBy == {"SHEET", "DATABASE", "SYSTEM"}

\* instants: T = 100, an older one, T + 1000, and instants one cooldown later
GuardTimes == {50, 100, 1100, 100 + SYNC_COOLDOWN_MS, 1100 + SYNC_COOLDOWN_MS}

GuardRowDatas ==
    {<<<<"a", Num(v)>>, <<"b", Num(1)>>>> : v \in {1, 2}}
        \cup {<<<<"b", Num(1)>>, <<"a", Num(v)>>>> : v \in {1, 2}}

\* the row was stamped no later than the instant the change arrives
GuardInputs ==
    {x \in [incoming : [source : Sources, timestamp : GuardTimes, values : GuardRowDatas],
            existing : [lastModifiedBy : ModifiedBy, lastModifiedAt : GuardTimes,
                        rowHash : {computeRowHash(d) : d \in GuardRowDatas}],
            now : GuardTimes,
            liveLock : {"NONE", "SHEET_TO_DB", "DB_TO_SHEET"}] :
        x.existing.lastModifiedAt <= x.now}

InitGuard ==
    /\ arg \in GuardInputs
    /\ res = <<>>
    /\ pc = "in"
    /\ EngineAside

EvaluateGuards ==
    /\ pc = "in"
    /\ res' = [echo |-> IsEcho(arg.incoming, arg.existing),
               lww |-> LWWArbiter(arg.incoming, arg.existing),
               resolved |-> resolveConflict(arg.incoming, arg.existing),
               decision |-> GuardChain(arg.incoming, arg.existing, arg.liveLock)]
    /\ pc' = "done"
    /\ UNCHANGED <<arg, sysVars, schemaVars>>

NextGuard == EvaluateGuards

SpecGuard == InitGuard /\ [][NextGuard]_vars

-----------------------------------------------------------------------------
(* Claims about the guard chain                                            *)

Delta == arg.incoming.timestamp - arg.existing.lastModifiedAt
SameOrigin == arg.incoming.source = arg.existing.lastModifiedBy

CanonicalText(rowData) ==
    CHOOSE t \in [1..Len(rowData) -> {rowData[i] : i \in 1..Len(rowData)}] :
        /\ {t[i] : i \in 1..Len(t)} = {rowData[i] : i \in 1..Len(rowData)}
        /\ \A i \in 1..(Len(t) - 1) : KeyRank(t[i][1]) < KeyRank(t[i + 1][1])

\* C4: every incoming change whose canonical row hash equals the row's stored
\* contentHash is SKIPped, whatever its origin and its timestamp relative to the
\* row: it is never APPLY and never CONFLICT.
C4_UnchangedHashSkipped ==
    (pc = "done" /\ CanonicalText(arg.incoming.values) = arg.existing.rowHash)
        => res.decision = "SKIP"

\* unchanged content from the other side, newer than the row, with its fields in
\* another order than the stored text: the arbiter alone would apply it
C4_UnchangedNewerSkipped ==
    /\ pc = "done"
    /\ CanonicalText(arg.incoming.values) = arg.existing.rowHash
    /\ arg.incoming.values # arg.existing.rowHash
    /\ ~SameOrigin /\ Delta > 0
    /\ res.lww = "APPLY"
    /\ res.decision = "SKIP"

\* C5: the LWW arbiter is a total function of the sign of delta and of whether the
\* origins are equal: delta > 0 gives APPLY, delta < 0 with different origins gives
\* CONFLICT, delta < 0 with equal origins gives SKIP, delta = 0 gives SKIP; an
\* older change of the same origin and a change with an equal timestamp never
\* yield CONFLICT.
C5_ArbiterTable ==
    pc = "done" =>
        /\ res.lww \in {"APPLY", "SKIP", "CONFLICT"}
        /\ (Delta > 0 => res.lww = "APPLY")
        /\ (Delta < 0 /\ ~SameOrigin => res.lww = "CONFLICT")
        /\ (Delta < 0 /\ SameOrigin => res.lww = "SKIP")
        /\ (Delta = 0 => res.lww = "SKIP")
        /\ ((Delta = 0 \/ (Delta < 0 /\ SameOrigin)) =>
                res.resolved # "CONFLICT" /\ res.decision # "CONFLICT")

\* an equal timestamp from the other side has been arbitrated
C5_EqualTimestampSkipped ==
    pc = "done" /\ Delta = 0 /\ ~SameOrigin /\ res.lww = "SKIP"

-----------------------------------------------------------------------------
(* Spec: one synced row and its cell in the external document               *)

PollIntervalMs == 5000
LOCK_TTL_MS == 10000
WorkerConcurrency == 5
JobAttempts == 3
ConflictDefaultResolutionManual == "MANUAL"
ConflictDefaultResolution == "PENDING"

MaxSheetEdits == 1
MaxStoreEdits == 1
MaxLog == 3
MaxTicks == 3

\* the cell holds 0 at rest; a sheet edit writes 1, a store edit writes 2
SheetValues == {1}
StoreValues == {2}

\* the row data of the synced row: its one user column
RowDataOf(v) == <<<<"a", Num(v)>>>>

NoLock == [direction |-> "NONE", acquiredAt |-> 0]

\* the mutant of LiveLock: the key has no time bound
LiveLockWithoutTtl(l, t) == l.direction

\* the direction whose lock on the row has not yet expired at instant t
LiveLock(l, t) ==
    IF l.direction # "NONE" /\ t - l.acquiredAt < LOCK_TTL_MS THEN l.direction ELSE "NONE"

\* AFTER UPDATE trigger of the data table: the change log after a row UPDATE
\* that leaves newRow behind; cause records which write fired it
after_sheet_data_update(newRow, cause) ==
    IF newRow.lastModifiedBy # "SHEET"
    THEN Append(changeLog, [changedAt |-> now, processed |-> FALSE, cause |-> cause])
    ELSE changeLog

\* the change log is capped at MaxLog entries
TriggerRoom(newRow) == newRow.lastModifiedBy = "SHEET" \/ Len(changeLog) < MaxLog

\* the loop-prevention check of the DbChangeWatcher for one change-log entry
PollGuard(existing, values, liveLock, t) ==
    IF existing.lastModifiedBy = "SHEET" THEN "SKIP"
    ELSE IF existing.lastModifiedBy = "DATABASE"
            /\ t - existing.lastModifiedAt < SYNC_COOLDOWN_MS THEN "SKIP"
    ELSE IF computeRowHash(values) = existing.rowHash THEN "SKIP"
    ELSE IF liveLock = "SHEET_TO_DB" THEN "REQUEUE"
    ELSE "PROCESS"

InProgress(j) == j.state \in {"deliver", "mark", "markError"}
ActiveJobs == {k \in 1..Len(d2sJobs) : InProgress(d2sJobs[k])}
HasJob(i) == \E k \in 1..Len(d2sJobs) : d2sJobs[k].entry = i

\* a quiescent system: row and cell agree, nothing queued, nothing logged
Init ==
    /\ ProbesAside
    /\ now = PollIntervalMs
    /\ row = [val |-> 0, rowHash |-> computeRowHash(RowDataOf(0)),
              lastModifiedAt |-> 0, lastModifiedBy |-> "SYSTEM",
              syncStatus |-> "SYNCED", syncedAt |-> 0]
    /\ sheet = 0
    /\ changeLog = <<>>
    /\ s2dQueue = <<>>
    /\ d2sJobs = <<>>
    /\ conflicts = <<>>
    /\ lock = NoLock
    /\ budget = [sheet |-> MaxSheetEdits, store |-> MaxStoreEdits]
    /\ SchemaAside

\* one poll interval passes
Tick ==
    /\ now < PollIntervalMs * (1 + MaxTicks)
    /\ now' = now + PollIntervalMs
    /\ UNCHANGED <<pureVars, schemaVars, row, sheet, changeLog, s2dQueue, d2sJobs, conflicts, lock, budget>>

\* a user edits the cell; the sheet's edit hook posts the webhook, which
\* validates the payload and enqueues the sheet-to-db job
SheetEdit(v) ==
    /\ budget.sheet > 0
    /\ sheet' = v
    /\ s2dQueue' = Append(s2dQueue, [value |-> v, timestamp |-> now, retryCount |-> 0])
    /\ budget' = [budget EXCEPT !.sheet = @ - 1]
    /\ UNCHANGED <<pureVars, schemaVars, now, row, changeLog, d2sJobs, conflicts, lock>>

\* a direct edit of the row in MySQL, stamped 'DATABASE'; the trigger logs it
StoreEdit(v) ==
    /\ budget.store > 0
    /\ LET newRow == [row EXCEPT !.val = v, !.lastModifiedBy = "DATABASE",
                                 !.lastModifiedAt = now]
       IN  /\ TriggerRoom(newRow)
           /\ row' = newRow
           /\ changeLog' = after_sheet_data_update(newRow, "edit")
    /\ budget' = [budget EXCEPT !.store = @ - 1]
    /\ UNCHANGED <<pureVars, schemaVars, now, sheet, s2dQueue, d2sJobs, conflicts, lock>>

\* the change a sheet-to-db job carries, as the guard chain sees it
IngestIncoming(j) ==
    [source |-> "SHEET", timestamp |-> j.timestamp, values |-> RowDataOf(j.value)]

\* the decision of the guard chain for the job at the head of the queue
IngestDecision == GuardChain(IngestIncoming(Head(s2dQueue)), row, LiveLock(lock, now))

\* the sync_conflicts record of a sheet change that lost to the row
ConflictRecord(j) ==
    [rowNumber |-> 1, columnName |-> "a",
     sheetValue |-> j.value, dbValue |-> row.val,
     sheetTimestamp |-> j.timestamp, dbTimestamp |-> row.lastModifiedAt,
     resolution |-> ConflictDefaultResolution]

\* the sheet-to-db worker takes the job at the head of its queue through the
\* guard chain and acts on the decision; the lock it takes is released in the step
Ingest ==
    /\ s2dQueue # <<>>
    /\ LET j == Head(s2dQueue)
           d == IngestDecision
           applied == [row EXCEPT !.val = j.value,
                                  !.rowHash = computeRowHash(RowDataOf(j.value)),
                                  !.lastModifiedBy = "SHEET",
                                  !.lastModifiedAt = now]
       IN  /\ s2dQueue' = IF d = "REQUEUE" THEN Append(Tail(s2dQueue), j) ELSE Tail(s2dQueue)
           /\ row' = IF d = "APPLY" THEN applied ELSE row
           /\ changeLog' = IF d = "APPLY" THEN after_sheet_data_update(applied, "ingest")
                           ELSE changeLog
           /\ conflicts' = IF d = "CONFLICT" THEN Append(conflicts, ConflictRecord(j))
                           ELSE conflicts
    /\ UNCHANGED <<pureVars, schemaVars, now, sheet, d2sJobs, lock, budget>>

\* the DbChangeWatcher examines the unprocessed change-log entry i that has no
\* job yet; an entry that passes is enqueued with the row's values as read now,
\* under a db-to-sheet lock on the row; an entry that does not pass stays unprocessed
Poll(i) ==
    /\ i \in 1..Len(changeLog)
    /\ ~changeLog[i].processed
    /\ ~HasJob(i)
    /\ IF PollGuard(row, RowDataOf(row.val), LiveLock(lock, now), now) = "PROCESS"
       THEN /\ d2sJobs' = Append(d2sJobs,
                    [entry |-> i, values |-> row.val, attemptsMade |-> 0, state |-> "waiting",
                     basis |-> <<row.lastModifiedAt, row.lastModifiedBy>>])
            /\ lock' = [direction |-> "DB_TO_SHEET", acquiredAt |-> now]
       ELSE UNCHANGED <<d2sJobs, lock>>
    /\ UNCHANGED <<pureVars, schemaVars, now, row, sheet, changeLog, s2dQueue, conflicts, budget>>

\* a db-to-sheet worker slot takes waiting job k
WorkerStart(k) ==
    /\ k \in 1..Len(d2sJobs)
    /\ d2sJobs[k].state = "waiting"
    /\ Cardinality(ActiveJobs) < WorkerConcurrency
    /\ d2sJobs' = [d2sJobs EXCEPT ![k].state = "deliver"]
    /\ UNCHANGED <<pureVars, schemaVars, now, row, sheet, changeLog, s2dQueue, conflicts, lock, budget>>

\* processJob, updateSheetRow: the job's values are written to the sheet, or the
\* call throws
WorkerDeliver(k) ==
    /\ k \in 1..Len(d2sJobs)
    /\ d2sJobs[k].state = "deliver"
    /\ \/ /\ sheet' = d2sJobs[k].values
          /\ d2sJobs' = [d2sJobs EXCEPT ![k].state = "mark"]
       \/ /\ sheet' = sheet
          /\ d2sJobs' = [d2sJobs EXCEPT ![k].state = "markError"]
    /\ UNCHANGED <<pureVars, schemaVars, now, row, changeLog, s2dQueue, conflicts, lock, budget>>

\* processJob, after the sheet write: UPDATE ... SET _sync_status = 'SYNCED',
\* _synced_at = NOW(); the job completes
WorkerMark(k) ==
    /\ k \in 1..Len(d2sJobs)
    /\ d2sJobs[k].state = "mark"
    /\ LET newRow == [row EXCEPT !.syncStatus = "SYNCED", !.syncedAt = now]
       IN  /\ TriggerRoom(newRow)
           /\ row' = newRow
           /\ changeLog' = after_sheet_data_update(newRow, "worker")
    /\ d2sJobs' = [d2sJobs EXCEPT ![k].state = "completed"]
    /\ UNCHANGED <<pureVars, schemaVars, now, sheet, s2dQueue, conflicts, lock, budget>>

\* processJob, catch: UPDATE ... SET _sync_status = 'ERROR', then the error is
\* thrown again and the queue retries the job until its attempts are used up
WorkerMarkError(k) ==
    /\ k \in 1..Len(d2sJobs)
    /\ d2sJobs[k].state = "markError"
    /\ LET newRow == [row EXCEPT !.syncStatus = "ERROR"]
       IN  /\ TriggerRoom(newRow)
           /\ row' = newRow
           /\ changeLog' = after_sheet_data_update(newRow, "worker")
    /\ d2sJobs' = [d2sJobs EXCEPT
            ![k].attemptsMade = @ + 1,
            ![k].state = IF d2sJobs[k].attemptsMade + 1 < JobAttempts THEN "waiting" ELSE "failed"]
    /\ UNCHANGED <<pureVars, schemaVars, now, sheet, s2dQueue, conflicts, lock, budget>>

\* the mutant of DeliveryConfirmed: a job counts as soon as it is enqueued
DeliveryConfirmedOnEnqueue(j) == j.state \in {"waiting", "completed"}

\* the job's external write has been confirmed successful
DeliveryConfirmed(j) == j.state = "completed"

\* the entry a completed job delivered is marked processed
MarkProcessed(k) ==
    /\ k \in 1..Len(d2sJobs)
    /\ DeliveryConfirmed(d2sJobs[k])
    /\ ~changeLog[d2sJobs[k].entry].processed
    /\ changeLog' = [changeLog EXCEPT ![d2sJobs[k].entry].processed = TRUE]
    /\ UNCHANGED <<pureVars, schemaVars, now, row, sheet, s2dQueue, d2sJobs, conflicts, lock, budget>>

Next ==
    \/ Tick
    \/ \E v \in SheetValues : SheetEdit(v)
    \/ \E v \in StoreValues : StoreEdit(v)
    \/ Ingest
    \/ \E i \in 1..MaxLog : Poll(i)
    \/ \E k \in 1..MaxLog : WorkerStart(k)
    \/ \E k \in 1..MaxLog : WorkerDeliver(k)
    \/ \E k \in 1..MaxLog : WorkerMark(k)
    \/ \E k \in 1..MaxLog : WorkerMarkError(k)
    \/ \E k \in 1..MaxLog : MarkProcessed(k)

Spec == Init /\ [][Next]_vars

-----------------------------------------------------------------------------
(* SpecIngest: the sheet-to-db worker on one drawn job, row, clock and lock  *)

InitIngest ==
    /\ ProbesAside
    /\ now \in GuardTimes
    /\ row \in {r \in [val : {0, 1, 2}, rowHash : {computeRowHash(RowDataOf(v)) : v \in {0, 1, 2}},
                       lastModifiedAt : GuardTimes, lastModifiedBy : ModifiedBy,
                       syncStatus : {"SYNCED"}, syncedAt : {0}] : r.lastModifiedAt <= now}
    /\ s2dQueue \in {<<j>> : j \in {c \in [value : SheetValues \cup StoreValues, timestamp : GuardTimes,
                                              retryCount : {0}] :
                                        c.timestamp <= now}}
    /\ sheet = s2dQueue[1].value
    /\ changeLog = <<>>
    /\ d2sJobs = <<>>
    /\ conflicts = <<>>
    /\ lock \in {NoLock} \cup {[direction |-> "DB_TO_SHEET", acquiredAt |-> now]}
    /\ budget = [sheet |-> 0, store |-> 0]
    /\ SchemaAside

NextIngest == Ingest

SpecIngest == InitIngest /\ [][NextIngest]_vars

-----------------------------------------------------------------------------
(* Claims about the engine                                                 *)

EditsMade == (MaxSheetEdits - budget.sheet) + (MaxStoreEdits - budget.store)

\* the job has written its values to the sheet
Delivered(j) == j.state \in {"mark", "completed"}

\* C1: no update loop: after one single edit from a quiescent system the engine's
\* writes stop; in particular the db-to-sheet worker's own write of _sync_status /
\* _synced_at after a delivery does not cause a change-log entry that is delivered
\* again: no job that has written the sheet belongs to an entry logged by a worker's
\* own UPDATE.
C1_NoWorkerCausedRedelivery ==
    EditsMade <= 1 =>
        \A k \in 1..Len(d2sJobs) :
            Delivered(d2sJobs[k]) => changeLog[d2sJobs[k].entry].cause # "worker"

\* nothing is queued, every job has completed, every change-log entry is processed
Settled ==
    /\ s2dQueue = <<>>
    /\ \A k \in 1..Len(d2sJobs) : d2sJobs[k].state = "completed"
    /\ \A i \in 1..Len(changeLog) : changeLog[i].processed

\* C2: eventual mutual consistency: once edits have stopped and every delivery has
\* succeeded, so that nothing is left to do, the value in the store row equals the
\* value in the external document, or a conflict with resolution PENDING exists.
C2_SettledConsistent ==
    Settled =>
        \/ row.val = sheet
        \/ \E c \in 1..Len(conflicts) : conflicts[c].resolution = "PENDING"

\* the step is the sheet-to-db worker finishing the job at the head of its queue
IngestStep == s2dQueue # <<>> /\ s2dQueue' = Tail(s2dQueue)

\* C6: whenever the guard chain decides CONFLICT for a change (the change is older
\* than the row and the origins differ), exactly one conflict record with resolution
\* PENDING holding both sides' values and timestamps is appended, and the row (its
\* values, lastModifiedBy, lastModifiedAt, contentHash) is left unchanged.
C6_ConflictAppendsAndLeavesRow ==
    [][(IngestStep /\ IngestDecision = "CONFLICT") =>
            /\ Head(s2dQueue).timestamp < row.lastModifiedAt
            /\ row.lastModifiedBy # "SHEET"
            /\ Len(conflicts') = Len(conflicts) + 1
            /\ SubSeq(conflicts', 1, Len(conflicts)) = conflicts
            /\ conflicts'[Len(conflicts')].resolution = "PENDING"
            /\ conflicts'[Len(conflicts')].sheetValue = Head(s2dQueue).value
            /\ conflicts'[Len(conflicts')].dbValue = row.val
            /\ conflicts'[Len(conflicts')].sheetTimestamp = Head(s2dQueue).timestamp
            /\ conflicts'[Len(conflicts')].dbTimestamp = row.lastModifiedAt
            /\ row' = row]_vars

\* the example of C6 has been through the worker: the row was last modified by the
\* store at T = 100, the sheet change is stamped T = 50, and the conflict is logged
C6_ExampleConflictLogged ==
    /\ pc = "engine"
    /\ s2dQueue = <<>>
    /\ Len(conflicts) = 1
    /\ conflicts[1].sheetTimestamp = 50
    /\ conflicts[1].dbTimestamp = 100
    /\ row.lastModifiedBy = "DATABASE"
    /\ row.lastModifiedAt = 100

\* C7: mutual exclusion per row: a Sheet->Store application and a Store->Sheet
\* delivery for the same row are never in progress at the same time: the sheet-to-db
\* worker never applies a change to the row while a db-to-sheet job for the row is
\* being processed.
C7_NoApplicationDuringDelivery ==
    [][(IngestStep /\ row' # row) => ActiveJobs = {}]_vars

-----------------------------------------------------------------------------
(* SpecHash: computeRowHash on two drawn rows                               *)

HashKeys == {"a", "b"}
HashValues ==
    {Num(1), Num(2), Undefined, Obj(<<<<"x", Num(1)>>>>), Obj(<<<<"x", Num(2)>>>>)}

\* rows of one or two fields, the keys distinct, in either insertion order
HashRows ==
    {<<<<k, v>>>> : k \in HashKeys, v \in HashValues}
        \cup {<<<<"a", v>>, <<"b", w>>>> : v \in HashValues, w \in HashValues}
        \cup {<<<<"b", w>>, <<"a", v>>>> : v \in HashValues, w \in HashValues}

InitHash ==
    /\ arg \in HashRows \X HashRows
    /\ res = <<>>
    /\ pc = "in"
    /\ EngineAside

HashBoth ==
    /\ pc = "in"
    /\ res' = <<computeRowHash(arg[1]), computeRowHash(arg[2])>>
    /\ pc' = "hashed"
    /\ UNCHANGED <<arg, sysVars, schemaVars>>

NextHash == HashBoth

SpecHash == InitHash /\ [][NextHash]_vars

\* the two rows have the same fields with the same values
SameMapping(r1, r2) ==
    {r1[i] : i \in 1..Len(r1)} = {r2[i] : i \in 1..Len(r2)}

\* C12: contentHash is a function of the row's field/value mapping only: rows with
\* the same fields and values in different key order hash equal, and rows that differ
\* in the value of any field (a nested object included, an absent field against one
\* present with an undefined value included) hash differently.
C12_HashOfMappingOnly ==
    pc = "hashed" =>
        /\ SameMapping(arg[1], arg[2]) => res[1] = res[2]
        /\ ~SameMapping(arg[1], arg[2]) => res[1] # res[2]

-----------------------------------------------------------------------------
(* utils/typeCoercion: coerceValue.  A value is null, undefined, a string,  *)
(* a number, a boolean, or an object whose conversion to a string throws.   *)

Str(chars) == [str |-> chars]
Bool(b) == [bool |-> b]
Null == [null |-> TRUE]
Throwing == [throws |-> TRUE]
NaN == [nan |-> TRUE]
Raised == [raised |-> TRUE]

\* a parsed decimal: its sign, its integer digits and its fraction digits
Float(neg, int, frac) == [float |-> <<neg, int, frac>>]
\* a valid Date, named by the text it was parsed from
DateOf(text) == [date |-> text]

ColumnDataType == {"TEXT", "NUMBER", "DATE", "BOOLEAN"}

DigitSeq == <<"0", "1", "2", "3", "4", "5", "6", "7", "8", "9">>

\* Number.prototype.toString of a non-negative integer
RECURSIVE NumText(_)
NumText(n) ==
    IF n < 10 THEN <<DigitSeq[n + 1]>> ELSE NumText(n \div 10) \o <<DigitSeq[(n % 10) + 1]>>

\* String(value) of a value whose conversion does not throw
StringOf(value) ==
    IF "str" \in DOMAIN value THEN value.str
    ELSE IF "num" \in DOMAIN value THEN NumText(value.num)
    ELSE IF value.bool THEN <<"t", "r", "u", "e">> ELSE <<"f", "a", "l", "s", "e">>

\* String.prototype.trim
trim(s) == RStrip(LStrip(s, Space), Space)

\* replace(/[^0-9.-]/g, '')
StripNonNumeric(s) == SelectSeq(s, LAMBDA c : c \in Digit \cup {".", "-"})

RECURSIVE TakeDigits(_)
TakeDigits(s) ==
    IF s = <<>> \/ Head(s) \notin Digit THEN <<>> ELSE <<Head(s)>> \o TakeDigits(Tail(s))

\* parseFloat of a string of digits, '.' and '-': the longest decimal prefix
parseFloat(s) ==
    LET neg == s # <<>> /\ Head(s) = "-"
        unsigned == IF neg THEN Tail(s) ELSE s
        int == TakeDigits(unsigned)
        rest == SubSeq(unsigned, Len(int) + 1, Len(unsigned))
        frac == IF rest # <<>> /\ Head(rest) = "." THEN TakeDigits(Tail(rest)) ELSE <<>>
    IN  IF int = <<>> /\ frac = <<>> THEN NaN ELSE Float(neg, int, frac)

TwoDigits(s, i) == (CHOOSE k \in 1..10 : DigitSeq[k] = s[i]) * 10
                    + (CHOOSE k \in 1..10 : DigitSeq[k] = s[i + 1]) - 11

\* the date-only ISO form YYYY-MM-DD
IsIsoDate(s) ==
    /\ Len(s) = 10
    /\ \A i \in {1, 2, 3, 4, 6, 7, 9, 10} : s[i] \in Digit
    /\ s[5] = "-" /\ s[8] = "-"
    /\ TwoDigits(s, 6) \in 1..12
    /\ TwoDigits(s, 9) \in 1..28

\* new Date(text): the ISO form is a valid date; a text without any digit is not a
\* date; for any other text the engine's fallback parser decides (legacyValid)
DateParse(text, legacyValid) ==
    IF IsIsoDate(text) THEN DateOf(text)
    ELSE IF \A i \in 1..Len(text) : text[i] \notin Digit THEN NaN
    ELSE IF legacyValid THEN DateOf(text) ELSE NaN

BooleanTruthyWithNo == {<<"t", "r", "u", "e">>, <<"1">>, <<"y", "e", "s">>, <<"n", "o">>}
BooleanTruthy == {<<"t", "r", "u", "e">>, <<"1">>, <<"y", "e", "s">>}

\* the switch inside the try block
CoerceSwitch(value, targetType, legacyValid) ==
    IF targetType = "NUMBER"
    THEN IF "num" \in DOMAIN value THEN value
         ELSE IF value = Throwing THEN Raised
         ELSE LET num == parseFloat(StripNonNumeric(StringOf(value)))
              IN  IF num = NaN THEN Num(0) ELSE num
    ELSE IF value = Throwing THEN Raised
    ELSE IF targetType = "DATE"
    THEN LET date == DateParse(StringOf(value), legacyValid)
         IN  IF date = NaN THEN Null ELSE date
    ELSE IF targetType = "BOOLEAN"
    THEN LET t == trim(StringOf(value))
             lower == [i \in 1..Len(t) |-> toLowerCase(t[i])]
         IN  IF lower \in BooleanTruthy THEN Num(1) ELSE Num(0)
    ELSE Str(trim(StringOf(value)))

coerceValue(value, targetType, legacyValid) ==
    IF value = Null \/ value = Undefined \/ value = Str(<<>>) THEN Null
    ELSE LET r == CoerceSwitch(value, targetType, legacyValid)
         IN  IF r = Raised THEN Null ELSE r

-----------------------------------------------------------------------------
(* SpecCoerce: coerceValue on a drawn value and target type                 *)

MaxCoerceLen == 3
CoerceChars == {"1", "-", ".", " ", "a"}

CoerceTexts ==
    {<<"a", "b", "c">>,
     <<"t", "r", "u", "e">>,
     <<" ", "T", "R", "U", "E", " ">>,
     <<"Y", "e", "s">>,
     <<"y", "e", "s">>,
     <<"n", "o">>,
     <<"f", "a", "l", "s", "e">>,
     <<"n", "o", "t", "-", "a", "-", "d", "a", "t", "e">>,
     <<"2", "0", "2", "4", "-", "0", "1", "-", "1", "5">>,
     <<"1", "2">>,
     <<"-", "1", ".", "5">>,
     <<"1", "a", "2">>,
     <<"a", "-", "1">>,
     <<" ", "h", "e", "l", "l", "o", " ">>,
     <<"1", "2", "a", "b", "c">>,
     <<"1", ".", "2", ".", "3">>}
        \cup SeqsUpTo(CoerceChars, MaxCoerceLen)

CoerceValues ==
    {Null, Undefined, Throwing, Num(0), Num(1), Num(12), Bool(TRUE), Bool(FALSE)}
        \cup {Str(t) : t \in CoerceTexts}

InitCoerce ==
    /\ arg \in [value : CoerceValues, targetType : ColumnDataType]
    /\ res = <<>>
    /\ pc = "in"
    /\ EngineAside

CoerceOnce ==
    /\ pc = "in"
    /\ \E legacyValid \in BOOLEAN :
            res' = <<coerceValue(arg.value, arg.targetType, legacyValid)>>
    /\ pc' = "coerced"
    /\ UNCHANGED <<arg, sysVars, schemaVars>>

NextCoerce == CoerceOnce

SpecCoerce == InitCoerce /\ [][NextCoerce]_vars

\* the value has a string form: String(value) does not throw
HasText(value) == \E f \in {"str", "num", "bool"} : f \in DOMAIN value

\* the decimal text a parsed number was read from
FloatText(f) ==
    (IF f.float[1] THEN <<"-">> ELSE <<>>) \o f.float[2]
        \o (IF f.float[3] = <<>> THEN <<>> ELSE <<".">> \o f.float[3])

\* f is the number read from the longest decimal prefix of text
IsLongestDecimalPrefix(f, text) ==
    LET t == FloatText(f)
        after == SubSeq(text, Len(t) + 1, Len(text))
    IN  /\ "float" \in DOMAIN f
        /\ f.float[2] # <<>> \/ f.float[3] # <<>>
        /\ Len(t) <= Len(text) /\ SubSeq(text, 1, Len(t)) = t
        /\ after # <<>> => Head(after) \notin Digit
        /\ (after # <<>> /\ Head(after) = "." /\ f.float[3] = <<>>) =>
                (Len(after) = 1 \/ after[2] \notin Digit)

\* no decimal number starts the text
NothingParsable(text) ==
    LET u == IF text # <<>> /\ Head(text) = "-" THEN Tail(text) ELSE text
    IN  ~(\/ (u # <<>> /\ Head(u) \in Digit)
          \/ (Len(u) >= 2 /\ u[1] = "." /\ u[2] \in Digit))

\* t is text without its leading and trailing spaces
IsTrimOf(t, text) ==
    /\ t = <<>> \/ (t[1] # " " /\ t[Len(t)] # " ")
    /\ \E i \in 0..Len(text) :
            /\ i + Len(t) <= Len(text)
            /\ SubSeq(text, i + 1, i + Len(t)) = t
            /\ \A k \in 1..Len(text) : (k <= i \/ k > i + Len(t)) => text[k] = " "

C13_NotADateGivesNull ==
    pc = "coerced" /\ arg.value = Str(<<"n", "o", "t", "-", "a", "-", "d", "a", "t", "e">>) /\ arg.targetType = "DATE" /\ res[1] = Null

C13_TrueGivesOne ==
    pc = "coerced" /\ arg.value = Str(<<"t", "r", "u", "e">>) /\ arg.targetType = "BOOLEAN" /\ res[1] = Num(1)

-----------------------------------------------------------------------------
(* services/SchemaManager over sync_sheets, sync_schema_registry and the     *)
(* backing tables.  A call runs statement by statement; callers interleave   *)
(* between statements.                                                       *)

TablePartLen == 24

\* utils/columnUtils
sanitizeTableName(sheetId, sheetName) ==
    LET idPart == substring(sanitizeIdentifier(sheetId), TablePartLen)
        namePart == substring(sanitizeIdentifier(sheetName), TablePartLen)
        base == <<"s", "h", "e", "e", "t", "_">> \o idPart \o <<"_">> \o namePart
    IN  substring(base, MaxIdentLen)

defaultColumnHeader(columnIndex) == ColPrefix \o NumText(columnIndex)

defaultMysqlColumnName(columnIndex) == substring(ColPrefix \o NumText(columnIndex), MaxIdentLen)

\* utils/typeCoercion
mysqlColumnType(columnType) ==
    IF columnType = "NUMBER" THEN "DECIMAL(20,6) NULL"
    ELSE IF columnType = "DATE" THEN "DATETIME NULL"
    ELSE IF columnType = "BOOLEAN" THEN "TINYINT(1) NULL"
    ELSE "TEXT NULL"

Callers == {1, 2}

Idle == [op |-> "idle", pc |-> "idle", args |-> <<>>, local |-> <<>>]
Returned(c, result) ==
    [op |-> "idle", pc |-> "returned", args |-> <<c.op>> \o c.args, local |-> result]
Threw(c) == [op |-> "idle", pc |-> "threw", args |-> <<c.op>> \o c.args, local |-> <<>>]

\* the rows of sync_sheets that an insert of (sheetId, sheetName, tableName) would
\* duplicate: on idx_sheet_unique, else on idx_table_name
DuplicateSheetRows(sheetId, sheetName, tableName) ==
    LET onPair == {i \in 1..Len(syncSheets) :
                        syncSheets[i].sheetId = sheetId /\ syncSheets[i].sheetName = sheetName}
        onName == {i \in 1..Len(syncSheets) : syncSheets[i].tableName = tableName}
    IN  IF onPair # {} THEN onPair ELSE onName

\* ensureSheetRegistration, first statement: INSERT INTO sync_sheets ... ON
\* DUPLICATE KEY UPDATE mysql_table_name = VALUES(mysql_table_name)
RegUpsert(p, sheetId, sheetName) ==
    /\ calls[p].op = "idle"
    /\ LET tableName == sanitizeTableName(sheetId, sheetName)
           dup == DuplicateSheetRows(sheetId, sheetName, tableName)
           i == CHOOSE k \in dup : TRUE
           clash == \E k \in 1..Len(syncSheets) : k # i /\ syncSheets[k].tableName = tableName
       IN  IF dup = {}
           THEN /\ syncSheets' = Append(syncSheets,
                        [sheetId |-> sheetId, sheetName |-> sheetName, tableName |-> tableName])
                /\ calls' = [calls EXCEPT ![p] =
                        [op |-> "ensureSheetRegistration", pc |-> "ensureBaseTable",
                         args |-> <<sheetId, sheetName>>, local |-> tableName]]
           ELSE IF clash
           THEN /\ syncSheets' = syncSheets
                /\ calls' = [calls EXCEPT ![p] =
                        Threw([op |-> "ensureSheetRegistration",
                               args |-> <<sheetId, sheetName>>])]
           ELSE /\ syncSheets' = [syncSheets EXCEPT ![i].tableName = tableName]
                /\ calls' = [calls EXCEPT ![p] =
                        [op |-> "ensureSheetRegistration", pc |-> "ensureBaseTable",
                         args |-> <<sheetId, sheetName>>, local |-> tableName]]
    /\ UNCHANGED <<pureVars, sysVars, schemaRegistry, tables>>

NewTableDropping(tableName) ==
    [n \in DOMAIN tables \cup {tableName} |->
        IF n = tableName THEN [columns |-> <<>>, rows |-> 0] ELSE tables[n]]

\* ensureBaseTable: CREATE TABLE IF NOT EXISTS
NewTable(tableName) ==
    [n \in DOMAIN tables \cup {tableName} |->
        IF n \in DOMAIN tables THEN tables[n] ELSE [columns |-> <<>>, rows |-> 0]]

\* ensureSheetRegistration, second statement, and the return of { tableName }
RegBaseTable(p) ==
    /\ calls[p].op = "ensureSheetRegistration"
    /\ tables' = NewTable(calls[p].local)
    /\ calls' = [calls EXCEPT ![p] = Returned(calls[p], calls[p].local)]
    /\ UNCHANGED <<pureVars, sysVars, syncSheets, schemaRegistry>>

\* the sync_schema_registry row of (sheetId, sheetName, columnIndex), or 0
MappingOf(sheetId, sheetName, columnIndex) ==
    LET hit == {i \in 1..Len(schemaRegistry) :
                    /\ schemaRegistry[i].sheetId = sheetId
                    /\ schemaRegistry[i].sheetName = sheetName
                    /\ schemaRegistry[i].columnIndex = columnIndex}
    IN  IF hit = {} THEN 0 ELSE CHOOSE i \in hit : TRUE

\* ensureColumnMapping, first statement: SELECT ... LIMIT 1
MapSelect(p, sheetId, sheetName, columnIndex, dataType) ==
    /\ calls[p].op = "idle"
    /\ LET id == MappingOf(sheetId, sheetName, columnIndex)
       IN  calls' = [calls EXCEPT ![p] =
                [op |-> "ensureColumnMapping", pc |-> "existing",
                 args |-> <<sheetId, sheetName, columnIndex, dataType>>,
                 local |-> IF id = 0 THEN <<>> ELSE <<[id |-> id, existing |-> schemaRegistry[id]]>>]]
    /\ UNCHANGED <<pureVars, sysVars, syncSheets, schemaRegistry, tables>>

\* the mutant of UpgradesType: any differing type is written
UpgradesTypeAlways(existing, dataType) == existing.dataType # dataType

\* row.dataType !== dataType && row.dataType === 'TEXT'
UpgradesType(existing, dataType) ==
    existing.dataType # dataType /\ existing.dataType = "TEXT"

\* ensureColumnMapping, after the SELECT: UPDATE data_type of the row read, or
\* return it, or INSERT the mapping named after the column index and return it
MapWrite(p) ==
    /\ calls[p].op = "ensureColumnMapping"
    /\ LET c == calls[p]
           sheetId == c.args[1]
           sheetName == c.args[2]
           columnIndex == c.args[3]
           dataType == c.args[4]
           inserted == [sheetId |-> sheetId, sheetName |-> sheetName,
                        columnIndex |-> columnIndex,
                        columnHeader |-> defaultColumnHeader(columnIndex),
                        mysqlColumnName |->
                            sanitizeIdentifier(defaultMysqlColumnName(columnIndex)),
                        dataType |-> dataType, isDeprecated |-> FALSE]
       IN  IF c.local # <<>>
           THEN IF UpgradesType(c.local[1].existing, dataType)
                THEN /\ schemaRegistry' =
                            [schemaRegistry EXCEPT ![c.local[1].id].dataType = dataType]
                     /\ calls' = [calls EXCEPT ![p] =
                            Returned(c, [c.local[1].existing EXCEPT !.dataType = dataType])]
                ELSE /\ schemaRegistry' = schemaRegistry
                     /\ calls' = [calls EXCEPT ![p] = Returned(c, c.local[1].existing)]
           ELSE IF MappingOf(sheetId, sheetName, columnIndex) # 0
           THEN /\ schemaRegistry' = schemaRegistry
                /\ calls' = [calls EXCEPT ![p] = Threw(c)]
           ELSE /\ schemaRegistry' = Append(schemaRegistry, inserted)
                /\ calls' = [calls EXCEPT ![p] = Returned(c, inserted)]
    /\ UNCHANGED <<pureVars, sysVars, syncSheets, tables>>

HasColumn(tableName, columnName) ==
    tableName \in DOMAIN tables /\ columnName \in DOMAIN tables[tableName].columns

\* ensureColumnExistsOnTable, first statement: SELECT COUNT(*) FROM
\* information_schema.COLUMNS; a positive count returns at once
ColCount(p, tableName, mysqlColumnName, dataType) ==
    /\ calls[p].op = "idle"
    /\ LET c == [op |-> "ensureColumnExistsOnTable", pc |-> "alter",
                 args |-> <<tableName, mysqlColumnName, dataType>>, local |-> 0]
       IN  calls' = [calls EXCEPT ![p] =
                IF HasColumn(tableName, mysqlColumnName) THEN Returned(c, <<>>) ELSE c]
    /\ UNCHANGED <<pureVars, sysVars, syncSheets, schemaRegistry, tables>>

\* ensureColumnExistsOnTable, second statement: ALTER TABLE ... ADD COLUMN; MySQL
\* rejects it when the table is missing or the column exists, and the error is
\* logged and thrown again
ColAlter(p) ==
    /\ calls[p].op = "ensureColumnExistsOnTable"
    /\ LET c == calls[p]
           tableName == c.args[1]
           columnName == c.args[2]
           old == tables[tableName].columns
       IN  IF tableName \notin DOMAIN tables \/ HasColumn(tableName, columnName)
           THEN /\ tables' = tables
                /\ calls' = [calls EXCEPT ![p] = Threw(c)]
           ELSE /\ tables' = [tables EXCEPT ![tableName].columns =
                        [n \in DOMAIN old \cup {columnName} |->
                            IF n = columnName THEN mysqlColumnType(c.args[3]) ELSE old[n]]]
                /\ calls' = [calls EXCEPT ![p] = Returned(c, <<>>)]
    /\ UNCHANGED <<pureVars, sysVars, syncSheets, schemaRegistry>>

\* a column removed from the sheet is marked deprecated in the registry
DeprecateColumn(id) ==
    /\ id \in 1..Len(schemaRegistry)
    /\ ~schemaRegistry[id].isDeprecated
    /\ schemaRegistry' = [schemaRegistry EXCEPT ![id].isDeprecated = TRUE]
    /\ UNCHANGED <<pureVars, sysVars, syncSheets, tables, calls>>

MaxRows == 1

\* the ingest inserts a first-seen row into a backing table
InsertRow(tableName) ==
    /\ tableName \in DOMAIN tables
    /\ tables[tableName].rows < MaxRows
    /\ tables' = [tables EXCEPT ![tableName].rows = @ + 1]
    /\ UNCHANGED <<pureVars, sysVars, syncSheets, schemaRegistry, calls>>

SchemaSheetIds == {<<"d">>}
SchemaSheetNames == {<<"a">>, <<"b">>}
SchemaColumnIndexes == {1, 2}
SchemaTypes == {"TEXT", "NUMBER", "DATE"}
SchemaTableNames ==
    {sanitizeTableName(i, n) : i \in SchemaSheetIds, n \in SchemaSheetNames}
SchemaColumnNames == {sanitizeIdentifier(defaultMysqlColumnName(1))}
ColumnTypes == {"TEXT", "NUMBER"}
MappingSheetNames == {<<"a">>}

InitSchema ==
    /\ ProbesAside
    /\ now = 0 /\ row = <<>> /\ sheet = 0 /\ changeLog = <<>> /\ s2dQueue = <<>>
    /\ d2sJobs = <<>> /\ conflicts = <<>> /\ lock = <<>> /\ budget = <<>>
    /\ syncSheets = <<>>
    /\ schemaRegistry = <<>>
    /\ tables = <<>>
    /\ calls = [p \in Callers |-> Idle]

NextRegistration ==
    \/ \E p \in Callers, i \in SchemaSheetIds, n \in SchemaSheetNames : RegUpsert(p, i, n)
    \/ \E p \in Callers : RegBaseTable(p)
    \/ \E p \in Callers, n \in SchemaTableNames, c \in SchemaColumnNames, t \in ColumnTypes :
            ColCount(p, n, c, t)
    \/ \E p \in Callers : ColAlter(p)
    \/ \E n \in SchemaTableNames : InsertRow(n)

SpecRegistration == InitSchema /\ [][NextRegistration]_vars

\* ensureColumnMapping calls made one after another, and column removals
NextMapping ==
    \/ \E i \in SchemaSheetIds, n \in MappingSheetNames,
          k \in SchemaColumnIndexes, t \in SchemaTypes : MapSelect(1, i, n, k, t)
    \/ MapWrite(1)
    \/ \E id \in SchemaColumnIndexes : DeprecateColumn(id)

SpecMapping == InitSchema /\ [][NextMapping]_vars

RegistrationReturned(p) ==
    /\ calls[p].pc = "returned"
    /\ calls[p].args[1] = "ensureSheetRegistration"

RegistrationStep(p) ==
    /\ calls'[p] # calls[p]
    /\ \/ calls[p].op = "ensureSheetRegistration"
       \/ calls'[p].op = "ensureSheetRegistration"

SheetRecords(sheetId, sheetName) ==
    {i \in 1..Len(syncSheets) :
        syncSheets[i].sheetId = sheetId /\ syncSheets[i].sheetName = sheetName}

\* C15: every ensureSheetRegistration call that has returned, whichever caller
\* made it and however the calls interleaved, returned the table name derived
\* from its (sheetId, sheetName), there is exactly one sync_sheets record of that
\* pair and the backing table exists; and no step of an ensureSheetRegistration
\* call changes the rows or columns of a table that already exists.
C15_RegistrationIdempotent ==
    /\ [](\A p \in Callers : RegistrationReturned(p) =>
            /\ calls[p].local = sanitizeTableName(calls[p].args[2], calls[p].args[3])
            /\ Cardinality(SheetRecords(calls[p].args[2], calls[p].args[3])) = 1
            /\ calls[p].local \in DOMAIN tables)
    /\ [][\A p \in Callers : RegistrationStep(p) =>
            \A n \in DOMAIN tables : n \in DOMAIN tables' /\ tables'[n] = tables[n]]_vars

\* both callers have registered the same pair, the second over a table that
\* already held a column and a row
C15_RegisteredTwiceOverContent ==
    /\ \A p \in Callers : RegistrationReturned(p)
    /\ calls[1].args = calls[2].args
    /\ calls[1].local = calls[2].local
    /\ tables[calls[1].local].rows = MaxRows
    /\ DOMAIN tables[calls[1].local].columns # {}

\* caller p saw the column missing and has not yet issued its ALTER TABLE,
\* and another call has added the column meanwhile
LostColumnRace(p) ==
    /\ calls[p].op = "ensureColumnExistsOnTable"
    /\ HasColumn(calls[p].args[1], calls[p].args[2])

\* C16: when two ensureColumnExistsOnTable calls for the same table and column
\* both observe the column missing before either adds it, the call that comes
\* second to the ALTER TABLE also completes successfully (it does not throw),
\* and the table keeps exactly that one column.
C16_LosingRacerSucceeds ==
    [][\A p \in Callers : LostColumnRace(p) /\ calls'[p] # calls[p] =>
            /\ calls'[p].pc = "returned"
            /\ HasColumn(calls[p].args[1], calls[p].args[2])']_vars

MappingReturned(p) ==
    /\ calls[p].pc = "returned"
    /\ calls[p].args[1] = "ensureColumnMapping"

\* C14: over ensureColumnMapping calls made one after another, the stored
\* dataType of a mapping changes only from TEXT to a non-TEXT type (hence at most
\* once): a mapping that is NUMBER, DATE or BOOLEAN keeps its type whatever type
\* a later call infers, and no mapping is removed.
C14_TypeLeavesTextOnce ==
    [][/\ Len(schemaRegistry') >= Len(schemaRegistry)
       /\ \A id \in 1..Len(schemaRegistry) :
            schemaRegistry'[id].dataType # schemaRegistry[id].dataType =>
                /\ schemaRegistry[id].dataType = "TEXT"
                /\ schemaRegistry'[id].dataType # "TEXT"]_vars

\* a call that inferred DATE for a mapping already upgraded to NUMBER has
\* returned, and the mapping is still NUMBER
C14_LaterDateLeavesNumber ==
    /\ MappingReturned(1)
    /\ calls[1].args[5] = "DATE"
    /\ calls[1].local.dataType = "NUMBER"
    /\ schemaRegistry[MappingOf(calls[1].args[2], calls[1].args[3], calls[1].args[4])].dataType
            = "NUMBER"

\* C17: once a mapping is deprecated it stays deprecated and no later
\* ensureColumnMapping call changes it.
C17_DeprecatedMappingFrozen ==
    [][\A id \in 1..Len(schemaRegistry) :
            schemaRegistry[id].isDeprecated => schemaRegistry'[id] = schemaRegistry[id]]_vars

\* the headers of the sheet's columns 1 and 2
SheetHeaders == << <<"P","r","i","c","e">>, <<"P","r","i","c","e">> >>

\* the mappings of one sheet, which share its backing table
SameTable(m1, m2) ==
    sanitizeTableName(m1.sheetId, m1.sheetName) = sanitizeTableName(m2.sheetId, m2.sheetName)

\* C11: mappings of one backing table have different column names, and the
\* mapping of a column whose sanitised header is already taken by a column
\* before it carries that name with the suffix _1 (second 'Price': price_1).
C11_SecondPriceGetsSuffix ==
    \A i, j \in 1..Len(schemaRegistry) :
        LET m1 == schemaRegistry[i]
            m2 == schemaRegistry[j]
            header1 == sanitizeIdentifier(SheetHeaders[m1.columnIndex])
            header2 == sanitizeIdentifier(SheetHeaders[m2.columnIndex])
        IN  i # j /\ SameTable(m1, m2) =>
                /\ m1.mysqlColumnName # m2.mysqlColumnName
                /\ m1.columnIndex < m2.columnIndex /\ header1 = header2 =>
                        /\ m1.mysqlColumnName = header1
                        /\ m2.mysqlColumnName = header1 \o <<"_", "1">>

\* ---------------------------------------------------------------------------
\* POST /webhook and enqueueSheetToDbJob
\* ---------------------------------------------------------------------------

typeof(v) ==
    IF "str" \in DOMAIN v THEN "string"
    ELSE IF "num" \in DOMAIN v THEN "number"
    ELSE IF "bool" \in DOMAIN v THEN "boolean"
    ELSE IF "undefined" \in DOMAIN v THEN "undefined"
    ELSE "object"

\* the mutant of isValidPayload: the timestamp is not looked at
isValidPayloadNoTimestamp(body) ==
    /\ body # Null
    /\ typeof(body.sheetId) = "string"
    /\ typeof(body.sheetName) = "string"
    /\ typeof(body.row) = "number"
    /\ typeof(body.col) = "number"
    /\ body.value # Undefined

\* a property that the body lacks reads as undefined, also the value
isValidPayload(body) ==
    /\ body # Null
    /\ typeof(body.sheetId) = "string"
    /\ typeof(body.sheetName) = "string"
    /\ typeof(body.row) = "number"
    /\ typeof(body.col) = "number"
    /\ body.value # Undefined
    /\ typeof(body.timestamp) = "string"

MaxRequests == 2

WebhookBodies ==
    {Null} \cup
    [sheetId : {Str(<<"d">>), Num(1)},
     sheetName : {Str(<<"a">>), Undefined},
     row : {Num(1), Str(<<"1">>)},
     col : {Num(2), Undefined},
     value : {Str(<<"x">>), Null, Undefined},
     timestamp : {Str(<<"t">>), Num(0)}]

\* uuidv4 for the n-th request
uuidv4(n) == n

\* enqueueSheetToDbJob: add('cell-change', {...data, retryCount: 0}, {jobId})
enqueueSheetToDbJob(data) ==
    Append(s2dQueue, [jobId |-> data.jobId, sheetId |-> data.sheetId,
                      sheetName |-> data.sheetName, row |-> data.row, col |-> data.col,
                      value |-> data.value, timestamp |-> data.timestamp,
                      retryCount |-> 0])

\* the handler of POST /webhook; queueUp is whether the queue's add resolves
Webhook(body, queueUp) ==
    /\ pc = "webhook"
    /\ Len(res) < MaxRequests
    /\ arg' = body
    /\ LET jobId == uuidv4(Len(res) + 1)
       IN  IF ~isValidPayload(body)
           THEN /\ res' = Append(res, [status |-> 400, code |-> "INVALID_PAYLOAD", jobId |-> 0])
                /\ s2dQueue' = s2dQueue
           ELSE IF queueUp
           THEN /\ s2dQueue' = enqueueSheetToDbJob(
                        [jobId |-> jobId, sheetId |-> body.sheetId,
                         sheetName |-> body.sheetName, row |-> body.row, col |-> body.col,
                         value |-> body.value, timestamp |-> body.timestamp])
                /\ res' = Append(res, [status |-> 202, code |-> "", jobId |-> jobId])
           ELSE /\ s2dQueue' = s2dQueue
                /\ res' = Append(res, [status |-> 500, code |-> "INTERNAL_ERROR", jobId |-> 0])
    /\ UNCHANGED <<pc, now, row, sheet, changeLog, d2sJobs, conflicts, lock, budget, schemaVars>>

InitWebhook ==
    /\ arg = Null /\ res = <<>> /\ pc = "webhook"
    /\ now = 0 /\ row = <<>> /\ sheet = 0 /\ changeLog = <<>> /\ s2dQueue = <<>>
    /\ d2sJobs = <<>> /\ conflicts = <<>> /\ lock = <<>> /\ budget = <<>>
    /\ SchemaAside

NextWebhook == \E body \in WebhookBodies, queueUp \in BOOLEAN : Webhook(body, queueUp)

SpecWebhook == InitWebhook /\ [][NextWebhook]_vars

\* malformed as the notification contract words it
Malformed(body) ==
    \/ body = Null
    \/ "str" \notin DOMAIN body.sheetId
    \/ "str" \notin DOMAIN body.sheetName
    \/ "num" \notin DOMAIN body.row
    \/ "num" \notin DOMAIN body.col
    \/ body.value = Undefined
    \/ "str" \notin DOMAIN body.timestamp

JobsOf(jobId) == {i \in 1..Len(s2dQueue) : s2dQueue[i].jobId = jobId}

LastResponse == res'[Len(res')]

\* C18 as stated: a notification is rejected exactly when its payload is
\* malformed (malformed payload is the only rejection reason).
C18_RejectedOnlyWhenMalformed ==
    [][res' # res => (LastResponse.status # 202 <=> Malformed(arg'))]_vars

\* C18 amended: a malformed payload is answered 400 INVALID_PAYLOAD and nothing
\* is queued; a well-formed one is either accepted (202) with exactly one job
\* added that carries its fields, retryCount 0 and a job id of its own, or, when
\* the enqueue fails, answered 500 INTERNAL_ERROR with nothing queued. Accepted
\* notifications have distinct job ids and exactly one job each.
C18_IngressOutcome ==
    /\ [](\A i \in 1..Len(res) : res[i].status = 202 =>
            /\ Cardinality(JobsOf(res[i].jobId)) = 1
            /\ \A j \in 1..Len(res) : j # i /\ res[j].status = 202 => res[j].jobId # res[i].jobId)
    /\ [](\A k \in 1..Len(s2dQueue) :
            s2dQueue[k].retryCount = 0
            /\ \E i \in 1..Len(res) : res[i].status = 202 /\ res[i].jobId = s2dQueue[k].jobId)
    /\ [][res' # res =>
            IF Malformed(arg')
            THEN LastResponse.status = 400 /\ s2dQueue' = s2dQueue
            ELSE \/ /\ LastResponse.status = 202
                    /\ Len(s2dQueue') = Len(s2dQueue) + 1
                    /\ SubSeq(s2dQueue', 1, Len(s2dQueue)) = s2dQueue
                    /\ LET job == s2dQueue'[Len(s2dQueue')]
                       IN  /\ job.jobId = LastResponse.jobId
                           /\ job.sheetId = arg'.sheetId /\ job.sheetName = arg'.sheetName
                           /\ job.row = arg'.row /\ job.col = arg'.col
                           /\ job.value = arg'.value /\ job.timestamp = arg'.timestamp
                           /\ job.retryCount = 0
                 \/ /\ LastResponse.status = 500
                    /\ s2dQueue' = s2dQueue]_vars

\* a well-formed notification was accepted and queued, another was answered 500
\* because the enqueue failed, and nothing else is in the queue
C18_AcceptedAndInternalError ==
    /\ Len(res) = 2
    /\ res[1].status = 202
    /\ res[2].status = 500
    /\ ~Malformed(arg)
    /\ Len(s2dQueue) = 1

\* ---------------------------------------------------------------------------
\* The two BullMQ queues: attempts and the failed set
\* ---------------------------------------------------------------------------
\* In the queue specifications s2dQueue and d2sJobs hold the whole state of the
\* sheet-to-db and the db-to-sheet queue: the jobs not yet finished, the ids of
\* the failed set and of the completed set, oldest first, and the ids handed out.

QueueNames == {"sheet-to-db", "db-to-sheet"}

SheetToDbAttempts == 3
SheetToDbRemoveOnFail == 2000
SheetToDbRemoveOnComplete == 1000
DbToSheetRemoveOnFail == 500
DbToSheetRemoveOnComplete == 1000
SheetToDbBackoffDelay == 2000
DbToSheetBackoffDelay == 2000

\* the mutant of Attempts: one attempt more
AttemptsPlusOne(name) ==
    IF name = "db-to-sheet" THEN JobAttempts + 1 ELSE SheetToDbAttempts + 1

\* defaultJobOptions.attempts
Attempts(name) == IF name = "db-to-sheet" THEN JobAttempts ELSE SheetToDbAttempts

\* defaultJobOptions.removeOnFail: the number of failed jobs kept
RemoveOnFail(name) ==
    IF name = "db-to-sheet" THEN DbToSheetRemoveOnFail ELSE SheetToDbRemoveOnFail

\* defaultJobOptions.removeOnComplete: the number of completed jobs kept
RemoveOnComplete(name) ==
    IF name = "db-to-sheet" THEN DbToSheetRemoveOnComplete ELSE SheetToDbRemoveOnComplete

\* defaultJobOptions.backoff of type 'exponential': the delay before the retry
\* that follows the failure of attempt number attemptsMade
Backoff(name, attemptsMade) ==
    2 ^ (attemptsMade - 1) *
        (IF name = "db-to-sheet" THEN DbToSheetBackoffDelay ELSE SheetToDbBackoffDelay)

EmptyQueue == [pending |-> <<>>, failed |-> <<>>, completed |-> <<>>, added |-> 0]

QueueOf(name) == IF name = "db-to-sheet" THEN d2sJobs ELSE s2dQueue

SetQueue(name, q) ==
    IF name = "db-to-sheet"
    THEN d2sJobs' = q /\ s2dQueue' = s2dQueue
    ELSE s2dQueue' = q /\ d2sJobs' = d2sJobs

QueueFrame ==
    UNCHANGED <<pureVars, schemaVars, now, row, sheet, changeLog, conflicts, lock, budget>>

\* the newest count entries of a finished set
KeepLast(ids, count) ==
    IF Len(ids) <= count THEN ids ELSE SubSeq(ids, Len(ids) - count + 1, Len(ids))

Without(jobs, i) == SubSeq(jobs, 1, i - 1) \o SubSeq(jobs, i + 1, Len(jobs))

\* Queue.add
QueueAdd(name) ==
    LET q == QueueOf(name)
    IN  /\ SetQueue(name, [q EXCEPT
                !.added = @ + 1,
                !.pending = Append(@, [id |-> q.added + 1, state |-> "waiting",
                                       attemptsMade |-> 0, attemptsStarted |-> 0,
                                       delays |-> <<>>, lastError |-> "none"])])
        /\ QueueFrame

\* a worker takes a waiting job, or a delayed one whose backoff has passed;
\* delays lists the backoff delays the job has waited so far
AttemptStart(name, i) ==
    LET q == QueueOf(name)
    IN  /\ i \in 1..Len(q.pending)
        /\ q.pending[i].state \in {"waiting", "delayed"}
        /\ SetQueue(name, [q EXCEPT !.pending[i].state = "active",
                                    !.pending[i].attemptsStarted = @ + 1])
        /\ QueueFrame

\* the processor resolves: the job moves to the completed set
AttemptSucceed(name, i) ==
    LET q == QueueOf(name)
    IN  /\ i \in 1..Len(q.pending)
        /\ q.pending[i].state = "active"
        /\ SetQueue(name, [q EXCEPT
                !.pending = Without(@, i),
                !.completed = KeepLast(Append(@, q.pending[i].id), RemoveOnComplete(name))])
        /\ QueueFrame

\* the processor throws error: the job is delayed for another attempt while
\* attempts remain, and otherwise moves to the failed set, which keeps its newest
\* entries; the job remembers the error of its last failed attempt
AttemptFailWith(name, i, error) ==
    LET q == QueueOf(name)
        made == q.pending[i].attemptsMade + 1
    IN  /\ i \in 1..Len(q.pending)
        /\ q.pending[i].state = "active"
        /\ IF made < Attempts(name)
           THEN SetQueue(name, [q EXCEPT !.pending[i].state = "delayed",
                                         !.pending[i].attemptsMade = made,
                                         !.pending[i].lastError = error,
                                         !.pending[i].delays =
                                                Append(@, Backoff(name, made))])
           ELSE SetQueue(name, [q EXCEPT
                    !.pending = Without(@, i),
                    !.failed = KeepLast(Append(@, q.pending[i].id), RemoveOnFail(name))])
        /\ QueueFrame

\* the processor throws, whatever the error
AttemptFail(name, i) == AttemptFailWith(name, i, "error")

InitQueue ==
    /\ ProbesAside
    /\ now = 0 /\ row = <<>> /\ sheet = 0 /\ changeLog = <<>>
    /\ conflicts = <<>> /\ lock = <<>> /\ budget = <<>>
    /\ s2dQueue = EmptyQueue
    /\ d2sJobs = EmptyQueue
    /\ SchemaAside

MaxQueueJobs == 2

NextQueue ==
    \E name \in QueueNames :
        \/ s2dQueue.added + d2sJobs.added < MaxQueueJobs /\ QueueAdd(name)
        \/ \E i \in 1..MaxQueueJobs : AttemptStart(name, i)
        \/ \E i \in 1..MaxQueueJobs : AttemptSucceed(name, i)
        \/ \E i \in 1..MaxQueueJobs : AttemptFail(name, i)

SpecQueue == InitQueue /\ [][NextQueue]_vars

PendingIds(q) == {q.pending[i].id : i \in 1..Len(q.pending)}
FailedIds(q) == {q.failed[i] : i \in 1..Len(q.failed)}
CompletedIds(q) == {q.completed[i] : i \in 1..Len(q.completed)}

OutageJobs(name) == RemoveOnFail(name) + 1

InitOutage ==
    /\ arg \in QueueNames
    /\ res = <<>> /\ pc = "outage"
    /\ now = 0 /\ row = <<>> /\ sheet = 0 /\ changeLog = <<>>
    /\ conflicts = <<>> /\ lock = <<>> /\ budget = <<>>
    /\ s2dQueue = EmptyQueue
    /\ d2sJobs = EmptyQueue
    /\ SchemaAside

OutageAdd ==
    /\ QueueOf(arg).pending = <<>>
    /\ QueueOf(arg).added < OutageJobs(arg)
    /\ QueueAdd(arg)

NextOutage ==
    \/ OutageAdd
    \/ AttemptStart(arg, 1)
    \/ AttemptFail(arg, 1)

SpecOutage == InitOutage /\ [][NextOutage]_vars

\* C20: a job in the failed set of a queue is in it in every later state,
\* however many other jobs fail afterwards.
C20_FailedJobsStay ==
    [][\A name \in QueueNames :
            \A id \in FailedIds(QueueOf(name)) : id \in FailedIds(QueueOf(name)')]_vars

-----------------------------------------------------------------------------
(* Further claims about the engine                                         *)

\* the job has still to write its values to the sheet
ToDeliver(j) == j.state \in {"waiting", "deliver"}

\* C21: write ordering to the external document: at most one db-to-sheet
\* delivery for the document is in progress at any time, and a job writes the
\* document only after every job enqueued before it has written or failed.
C21_OneDeliveryInEnqueueOrder ==
    /\ Cardinality(ActiveJobs) <= 1
    /\ \A j \in 1..Len(d2sJobs) : \A k \in 1..Len(d2sJobs) :
            j < k /\ Delivered(d2sJobs[k]) => ~ToDeliver(d2sJobs[j])

-----------------------------------------------------------------------------
(* SpecLimiter: the rate limiter of the db-to-sheet worker                  *)
\* Here budget is the limiter's Redis key (its counter and its expiry) with the
\* number of jobs being processed, and res[k] counts the attempts started at
\* the k-th instant; waiting jobs, first attempts and retries, never run out.

LimiterMax == 50
LimiterDuration == 60000
ExternalWriteQuota == 60

\* instants are half a limiter duration apart
LimiterStep == LimiterDuration \div 2
MaxLimiterSteps == 2

InitLimiter ==
    /\ arg = <<>> /\ pc = "limiter"
    /\ res = <<0>>
    /\ now = 0
    /\ budget = [count |-> 0, expiresAt |-> 0, active |-> 0]
    /\ row = <<>> /\ sheet = 0 /\ changeLog = <<>> /\ s2dQueue = <<>>
    /\ d2sJobs = <<>> /\ conflicts = <<>> /\ lock = <<>>
    /\ SchemaAside

LimiterFrame ==
    UNCHANGED <<arg, pc, row, sheet, changeLog, s2dQueue, d2sJobs, conflicts, lock, schemaVars>>

\* the limiter key has expired, or was never set
KeyExpired == budget.expiresAt <= now

\* limiter: { max, duration }: no job is taken while the key lives and its
\* counter has reached max
RateLimited == ~KeyExpired /\ budget.count >= LimiterMax

\* a worker slot takes a waiting job: the key's counter is incremented, and the
\* increment that creates the key sets its expiry
LimiterStart ==
    /\ budget.active < WorkerConcurrency
    /\ ~RateLimited
    /\ budget' = IF KeyExpired
                 THEN [count |-> 1, expiresAt |-> now + LimiterDuration,
                       active |-> budget.active + 1]
                 ELSE [budget EXCEPT !.count = @ + 1, !.active = @ + 1]
    /\ res' = [res EXCEPT ![Len(res)] = @ + 1]
    /\ now' = now
    /\ LimiterFrame

\* processJob resolves or throws: the slot is free again
LimiterFinish ==
    /\ budget.active > 0
    /\ budget' = [budget EXCEPT !.active = @ - 1]
    /\ UNCHANGED <<now, res>>
    /\ LimiterFrame

LimiterTick ==
    /\ Len(res) <= MaxLimiterSteps
    /\ now' = now + LimiterStep
    /\ res' = Append(res, 0)
    /\ budget' = budget
    /\ LimiterFrame

NextLimiter == LimiterStart \/ LimiterFinish \/ LimiterTick

SpecLimiter == InitLimiter /\ [][NextLimiter]_vars

\* the attempts started in the 60 seconds that end now: those of the instants
\* later than now - LimiterDuration
StartedInLastWindow ==
    LET recent == {k \in 1..Len(res) : (Len(res) - k) * LimiterStep < LimiterDuration}
        RECURSIVE Sum(_)
        Sum(ks) == IF ks = {} THEN 0
                   ELSE LET k == CHOOSE x \in ks : TRUE IN res[k] + Sum(ks \ {k})
    IN  Sum(recent)

\* C22: in every window of 60 seconds the number of db-to-sheet delivery
\* attempts started is at most the limiter maximum, which is strictly below
\* the external write quota of 60 per minute.
C22_WindowWithinLimiterMax ==
    /\ LimiterMax < ExternalWriteQuota
    /\ StartedInLastWindow <= LimiterMax

-----------------------------------------------------------------------------
(* SpecDelivery: both directions after one store edit                      *)

\* a store edit of the row has been logged and its cooldown has passed; the
\* sheet holds the old value, or a user's edit whose job is queued
InitDelivery ==
    /\ ProbesAside
    /\ now = 2 * PollIntervalMs
    /\ row \in [val : StoreValues, rowHash : {computeRowHash(RowDataOf(0))},
                lastModifiedAt : {0, PollIntervalMs}, lastModifiedBy : {"DATABASE"},
                syncStatus : {"SYNCED", "PENDING"}, syncedAt : {0}]
    /\ s2dQueue \in {<<>>} \cup {<<j>> : j \in [value : SheetValues, timestamp : {0, now},
                                                retryCount : {0}]}
    /\ sheet = IF s2dQueue = <<>> THEN 0 ELSE s2dQueue[1].value
    /\ changeLog = <<[changedAt |-> row.lastModifiedAt, processed |-> FALSE, cause |-> "edit"]>>
    /\ d2sJobs = <<>>
    /\ conflicts = <<>>
    /\ lock = NoLock
    /\ budget = [sheet |-> 0, store |-> 0]
    /\ SchemaAside

NextDelivery ==
    \/ Ingest
    \/ \E i \in 1..MaxLog : Poll(i)
    \/ \E k \in 1..MaxLog : WorkerStart(k)
    \/ \E k \in 1..MaxLog : WorkerDeliver(k)
    \/ \E k \in 1..MaxLog : WorkerMark(k)
    \/ \E k \in 1..MaxLog : WorkerMarkError(k)
    \/ \E k \in 1..MaxLog : MarkProcessed(k)

SpecDelivery == InitDelivery /\ [][NextDelivery]_vars

\* some job of change-log entry i has had its external write confirmed
ConfirmedDelivery(i) ==
    \E k \in 1..Len(d2sJobs) : d2sJobs[k].entry = i /\ d2sJobs[k].state = "completed"

PassesFirstGuards ==
    LET incoming == IngestIncoming(Head(s2dQueue))
    IN  /\ ~IsEcho(incoming, row)
        /\ computeRowHash(incoming.values) # row.rowHash
        /\ LiveLock(lock, now) # "DB_TO_SHEET"

\* C25: a conflict record is created only by the step that takes a change
\* through the guard chain, and only when the change passes guards 1 to 3 and
\* the LWW arbiter answers CONFLICT; no worker step creates one; no step sets
\* the row's status to CONFLICT; and every record keeps resolution PENDING.
C25_ConflictsOnlyFromArbiterNeverResolved ==
    /\ [](row.syncStatus # "CONFLICT")
    /\ [](\A c \in 1..Len(conflicts) : conflicts[c].resolution = "PENDING")
    /\ [][conflicts' # conflicts =>
            /\ IngestStep
            /\ PassesFirstGuards
            /\ LWWArbiter(IngestIncoming(Head(s2dQueue)), row) = "CONFLICT"
            /\ Len(conflicts') = Len(conflicts) + 1
            /\ SubSeq(conflicts', 1, Len(conflicts)) = conflicts]_vars

\* a conflict was recorded, and afterwards a db-to-sheet job ran to completion
\* and its entry was marked processed, with the record still PENDING
C25_ConflictSurvivesDelivery ==
    /\ Len(conflicts) = 1
    /\ conflicts[1].resolution = "PENDING"
    /\ \E k \in 1..Len(d2sJobs) : d2sJobs[k].state = "completed"
    /\ changeLog[1].processed

-----------------------------------------------------------------------------
(* SpecSequential: the sheet-to-db queue served by one worker, one job at   *)
(* a time                                                                   *)

MaxSequentialJobs == 3

NoneActive(q) == \A i \in 1..Len(q.pending) : q.pending[i].state # "active"

\* the oldest job of the wait list
FirstWaiting(q, i) ==
    /\ q.pending[i].state = "waiting"
    /\ \A k \in 1..(i - 1) : q.pending[k].state # "waiting"

\* the worker is free and takes the oldest waiting job, or a delayed job whose
\* backoff has passed
SequentialStart(i) ==
    /\ i \in 1..Len(s2dQueue.pending)
    /\ NoneActive(s2dQueue)
    /\ s2dQueue.pending[i].state = "delayed" \/ FirstWaiting(s2dQueue, i)
    /\ AttemptStart("sheet-to-db", i)

NextSequential ==
    \/ s2dQueue.added < MaxSequentialJobs /\ QueueAdd("sheet-to-db")
    \/ \E i \in 1..MaxSequentialJobs : SequentialStart(i)
    \/ \E i \in 1..MaxSequentialJobs : AttemptSucceed("sheet-to-db", i)
    \/ \E i \in 1..MaxSequentialJobs : AttemptFail("sheet-to-db", i)

SpecSequential == InitQueue /\ [][NextSequential]_vars

\* C26: the store writes of the sheet-to-db jobs happen in the order the
\* notifications were enqueued (job ids are handed out in that order), also
\* when a job fails and is retried while later jobs are waiting.
C26_CompletedInArrivalOrder ==
    \A a \in 1..Len(s2dQueue.completed) : \A b \in 1..Len(s2dQueue.completed) :
        a < b => s2dQueue.completed[a] < s2dQueue.completed[b]

-----------------------------------------------------------------------------
(* Claims about the engine over time                                       *)

\* job k writes its values to the external document in this step
ExternalWrite(k) ==
    /\ k \in 1..Len(d2sJobs)
    /\ d2sJobs[k].state = "deliver"
    /\ d2sJobs'[k].state = "mark"

\* the row was last written from the sheet less than a cooldown ago
FreshFromSheet ==
    row.lastModifiedBy = "SHEET" /\ now - row.lastModifiedAt < SYNC_COOLDOWN_MS

\* C27: the db-to-sheet worker never writes to the external document while the
\* row's _last_modified_by is 'SHEET' and its _last_modified_at is less than
\* SYNC_COOLDOWN_MS in the past: such a job is skipped.
C27_NoWriteBackOfFreshSheetRow ==
    [][\A k \in 1..MaxLog : ExternalWrite(k) => ~FreshFromSheet]_vars

\* the job at the head of the queue is a second change from the sheet for a row
\* last written from the sheet: stamped later than the row, with other content
SecondSheetChange ==
    /\ s2dQueue # <<>>
    /\ row.lastModifiedBy = "SHEET"
    /\ Head(s2dQueue).timestamp > row.lastModifiedAt
    /\ Head(s2dQueue).value # row.val
    /\ computeRowHash(RowDataOf(Head(s2dQueue).value)) # row.rowHash

\* C28: a second change from the same origin, stamped later than the first
\* and with different content, is never dropped without a trace: when its job
\* leaves the queue, whatever the time between the two changes, the row holds
\* its value or a conflict record has been added.
C28_SecondChangeAppliedOrRecorded ==
    [][SecondSheetChange /\ IngestStep =>
            \/ row'.val = Head(s2dQueue).value
            \/ Len(conflicts') = Len(conflicts) + 1]_vars

-----------------------------------------------------------------------------
(* SpecLock: a sheet change waits behind the lock of a crashed holder       *)

\* a db-to-sheet lock was taken on the row and its holder will never release
\* it; a sheet change for the row is queued
InitLock ==
    /\ ProbesAside
    /\ now = PollIntervalMs
    /\ row \in [val : {0, 2}, rowHash : {computeRowHash(RowDataOf(0))},
                lastModifiedAt : {0, PollIntervalMs}, lastModifiedBy : ModifiedBy,
                syncStatus : {"SYNCED", "PENDING"}, syncedAt : {0}]
    /\ s2dQueue \in {<<j>> : j \in [value : SheetValues, timestamp : {0, now},
                                    retryCount : {0}]}
    /\ sheet = s2dQueue[1].value
    /\ changeLog = <<>>
    /\ d2sJobs = <<>>
    /\ conflicts = <<>>
    /\ lock \in [direction : {"DB_TO_SHEET"}, acquiredAt : {0, now}]
    /\ budget = [sheet |-> 0, store |-> 0]
    /\ SchemaAside

NextLock == Tick \/ Ingest

\* the clock advances, and the worker keeps taking the requeued job
SpecLock == InitLock /\ [][NextLock]_vars /\ WF_vars(Tick) /\ WF_vars(Ingest)

-----------------------------------------------------------------------------
(* utils/typeCoercion: inferColumnType, and SpecInference, where every      *)
(* ensureColumnMapping call carries the type inferred from a sample         *)

BooleanLiterals ==
    {<<"t", "r", "u", "e">>, <<"f", "a", "l", "s", "e">>, <<"y", "e", "s">>,
     <<"n", "o">>, <<"1">>, <<"0">>}

\* replace(/,/g, '')
StripCommas(s) == SelectSeq(s, LAMBDA c : c # ",")

\* /^-?[0-9]+(\.[0-9]+)?$/
IsDecimal(s) ==
    LET unsigned == IF s # <<>> /\ Head(s) = "-" THEN Tail(s) ELSE s
        int == TakeDigits(unsigned)
        rest == SubSeq(unsigned, Len(int) + 1, Len(unsigned))
    IN  /\ int # <<>>
        /\ \/ rest = <<>>
           \/ /\ Len(rest) >= 2
              /\ Head(rest) = "."
              /\ \A i \in 2..Len(rest) : rest[i] \in Digit

\* /\d{4}-\d{2}-\d{2}/
HasDatePattern(s) ==
    \E i \in 1..Len(s) :
        /\ i + 9 <= Len(s)
        /\ \A k \in {0, 1, 2, 3, 5, 6, 8, 9} : s[i + k] \in Digit
        /\ s[i + 4] = "-" /\ s[i + 7] = "-"

\* the rules after the typeof test, on String(value).trim()
InferFromText(asString, legacyValid) ==
    LET lower == [i \in 1..Len(asString) |-> toLowerCase(asString[i])]
    IN  IF Len(asString) = 0 THEN "TEXT"
        ELSE IF lower \in BooleanLiterals THEN "BOOLEAN"
        ELSE IF parseFloat(StripNonNumeric(asString)) # NaN /\ IsDecimal(StripCommas(asString))
        THEN "NUMBER"
        ELSE IF DateParse(asString, legacyValid) # NaN /\ HasDatePattern(asString)
        THEN "DATE"
        ELSE "TEXT"

inferColumnType(value, legacyValid) ==
    IF value = Null \/ value = Undefined \/ value = Str(<<>>) THEN "TEXT"
    ELSE IF "num" \in DOMAIN value THEN "NUMBER"
    ELSE IF value = Throwing THEN Raised
    ELSE InferFromText(trim(StringOf(value)), legacyValid)

\* sample cell values, none of them empty
NonEmptySamples ==
    {Str(<<"h", "e", "l", "l", "o">>),
     Str(<<"4", "2">>),
     Str(<<"1", ",", "5", "0", "0">>),
     Str(<<"y", "e", "s">>),
     Str(<<"2", "0", "2", "4", "-", "0", "1", "-", "1", "5">>),
     Num(7)}

NextInference ==
    \/ \E sheetName \in MappingSheetNames, columnIndex \in SchemaColumnIndexes,
          sample \in NonEmptySamples, legacyValid \in BOOLEAN :
            MapSelect(1, <<"d">>, sheetName, columnIndex,
                      inferColumnType(sample, legacyValid))
    \/ MapWrite(1)

SpecInference == InitSchema /\ [][NextInference]_vars

\* C30: once a mapping's dataType has been inferred from a non-empty sample, no
\* later ensureColumnMapping call with a sample of another inferred type changes
\* the stored dataType.
C30_FirstSampleFixesType ==
    [][\A id \in DOMAIN schemaRegistry :
            schemaRegistry'[id].dataType = schemaRegistry[id].dataType]_vars

-----------------------------------------------------------------------------
(* SpecInfer: inferColumnType applied to a drawn value                      *)

InferTexts ==
    CoerceTexts \cup
        {<<"0">>, <<"1", ",", "5", "0", "0">>, <<"+", "5">>, <<"N", "O">>,
         <<"x", "2", "0", "2", "4", "-", "0", "1", "-", "1", "5">>,
         <<"2", "0", "2", "4", "-", "1", "3", "-", "4", "5">>}

InferValues ==
    {Null, Undefined, Throwing, Num(0), Num(1), Num(12), Bool(TRUE), Bool(FALSE)}
        \cup {Str(t) : t \in InferTexts}

InitInfer ==
    /\ arg \in [value : InferValues]
    /\ res = <<>>
    /\ pc = "in"
    /\ EngineAside

InferOnce ==
    /\ pc = "in"
    /\ \E legacyValid \in BOOLEAN :
            res' = <<inferColumnType(arg.value, legacyValid), legacyValid>>
    /\ pc' = "inferred"
    /\ UNCHANGED <<arg, sysVars, schemaVars>>

NextInfer == InferOnce

SpecInfer == InitInfer /\ [][NextInfer]_vars

\* the classification by the first matching rule, in the stated order, on the
\* text of the value
RuleOrder(text, legacyValid) ==
    LET t == trim(text)
        lower == [i \in 1..Len(t) |-> toLowerCase(t[i])]
    IN  IF t = <<>> THEN "TEXT"
        ELSE IF lower \in {<<"t", "r", "u", "e">>, <<"f", "a", "l", "s", "e">>,
                           <<"y", "e", "s">>, <<"n", "o">>, <<"1">>, <<"0">>}
        THEN "BOOLEAN"
        ELSE IF IsDecimal(StripCommas(t)) THEN "NUMBER"
        ELSE IF HasDatePattern(t) /\ DateParse(t, legacyValid) # NaN THEN "DATE"
        ELSE "TEXT"

\* C31: inferColumnType classifies every value by the first matching rule in
\* the order empty -> TEXT, boolean literal -> BOOLEAN, decimal -> NUMBER,
\* YYYY-MM-DD date -> DATE, else TEXT; the values 1 and 0, as text or as numbers,
\* give BOOLEAN.
C31_FirstMatchingRule ==
    pc = "inferred" /\ HasText(arg.value) =>
        res[1] = RuleOrder(StringOf(arg.value), res[2])

-----------------------------------------------------------------------------
(* The backoff delays of the jobs of SpecQueue                              *)

\* C32: the delay before the k-th retry of a failed job is 5000 * 2^(k-1)
\* milliseconds (5 s, 10 s, 20 s), and a job has waited every one of these delays
\* when it moves to the failed set.
C32_BackoffFiveTenTwenty ==
    /\ [](\A name \in QueueNames : \A i \in 1..Len(QueueOf(name).pending) :
            LET delays == QueueOf(name).pending[i].delays
            IN  \A k \in 1..Len(delays) : delays[k] = 5000 * 2 ^ (k - 1))
    /\ [][\A name \in QueueNames :
            LET q == QueueOf(name)
                after == QueueOf(name)'
            IN  \A i \in 1..Len(q.pending) :
                    q.pending[i].id \in FailedIds(after) \ FailedIds(q) =>
                        q.pending[i].delays = <<5000, 10000, 20000>>]_vars

-----------------------------------------------------------------------------
(* SpecFailure: db-to-sheet jobs whose external write is rejected with a    *)
(* rate-limit response or with a rejection that no retry can cure           *)

MaxFailureJobs == 2
DeliveryErrors == {"rateLimited", "rejected"}

\* processJob's catch block rethrows the error of updateSheetRow as it came
NextFailure ==
    \/ d2sJobs.added < MaxFailureJobs /\ QueueAdd("db-to-sheet")
    \/ \E i \in 1..MaxFailureJobs : AttemptStart("db-to-sheet", i)
    \/ \E i \in 1..MaxFailureJobs : AttemptSucceed("db-to-sheet", i)
    \/ \E i \in 1..MaxFailureJobs, error \in DeliveryErrors :
            AttemptFailWith("db-to-sheet", i, error)

SpecFailure == InitQueue /\ [][NextFailure]_vars

\* C33: a rate-limited delivery is retried with backoff while attempts remain,
\* whereas a job whose delivery met a non-retryable rejection moves to the failed
\* set at once: it is never left among the unfinished jobs for a further attempt.
C33_RejectionFailsFast ==
    \A i \in 1..Len(d2sJobs.pending) :
        LET j == d2sJobs.pending[i]
        IN  /\ j.lastError = "rateLimited" /\ j.state = "delayed" =>
                    j.attemptsMade < JobAttempts /\ j.delays # <<>>
            /\ j.lastError # "rejected"

-----------------------------------------------------------------------------
(* SpecCollision: ensureSheetRegistration on sheet names that sanitize to   *)
(* the same table name part                                                 *)

\* sheet names that differ in case, in a character that sanitization drops,
\* and after their first 24 characters
CollidingSheetNames ==
    {<<"a">>, <<"A">>, <<"a", "!">>,
     Rep("b", TablePartLen) \o <<"x">>, Rep("b", TablePartLen) \o <<"y">>}

NextCollision ==
    \/ \E p \in Callers, i \in SchemaSheetIds, n \in CollidingSheetNames : RegUpsert(p, i, n)
    \/ \E p \in Callers : RegBaseTable(p)

SpecCollision == InitSchema /\ [][NextCollision]_vars

\* C34: two registered (documentId, sheetName) pairs that differ never share a
\* backing table: ensureSheetRegistration returns different table names for
\* them and leaves one sync_sheets record per pair.
C34_DistinctPairsDistinctTables ==
    /\ \A p \in Callers : RegistrationReturned(p) =>
            Cardinality(SheetRecords(calls[p].args[2], calls[p].args[3])) = 1
    /\ \A p, q \in Callers :
            /\ RegistrationReturned(p) /\ RegistrationReturned(q)
            /\ calls[p].args # calls[q].args
            => calls[p].local # calls[q].local

-----------------------------------------------------------------------------
(* SpecColumns: one caller registers the sheet and then, cell by cell,      *)
(* calls ensureColumnMapping followed by ensureColumnExistsOnTable with the *)
(* mapping it got back                                                      *)

ColumnCallReturned(p) ==
    /\ calls[p].pc = "returned"
    /\ calls[p].args[1] = "ensureColumnExistsOnTable"

NextColumns ==
    \/ /\ calls[1] = Idle
       /\ \E i \in SchemaSheetIds, n \in MappingSheetNames : RegUpsert(1, i, n)
    \/ RegBaseTable(1)
    \/ /\ RegistrationReturned(1) \/ ColumnCallReturned(1)
       /\ \E i \in SchemaSheetIds, n \in MappingSheetNames,
             k \in SchemaColumnIndexes, t \in ColumnDataType : MapSelect(1, i, n, k, t)
    \/ MapWrite(1)
    \/ /\ MappingReturned(1)
       /\ ColCount(1, sanitizeTableName(calls[1].args[2], calls[1].args[3]),
                   calls[1].local.mysqlColumnName, calls[1].local.dataType)
    \/ ColAlter(1)

SpecColumns == InitSchema /\ [][NextColumns]_vars

\* C35: whenever ensureColumnExistsOnTable has returned after ensureColumnMapping,
\* every mapping whose physical column exists has a column of the type that
\* mysqlColumnType gives for the mapping's current dataType, also after the
\* mapping was upgraded from TEXT.
C35_ColumnTypeFollowsMapping ==
    ColumnCallReturned(1) =>
        \A id \in 1..Len(schemaRegistry) :
            LET m == schemaRegistry[id]
                tableName == sanitizeTableName(m.sheetId, m.sheetName)
            IN  HasColumn(tableName, m.mysqlColumnName) =>
                    tables[tableName].columns[m.mysqlColumnName] = mysqlColumnType(m.dataType)

-----------------------------------------------------------------------------
(* SpecRace: two callers of ensureColumnMapping, statement by statement     *)

NextRace ==
    \/ \E p \in Callers, i \in SchemaSheetIds, n \in MappingSheetNames,
          k \in SchemaColumnIndexes, t \in SchemaTypes : MapSelect(p, i, n, k, t)
    \/ \E p \in Callers : MapWrite(p)

SpecRace == InitSchema /\ [][NextRace]_vars

\* the stored type of the mapping that caller p's returned call was about
StoredType(p) ==
    schemaRegistry[MappingOf(calls[p].args[2], calls[p].args[3], calls[p].args[4])].dataType

\* C36: when two ensureColumnMapping calls for the same TEXT mapping run
\* concurrently with different non-TEXT types, the stored dataType leaves TEXT
\* once and the second writer does not overwrite it, and once both calls have
\* returned each has returned the dataType that is stored.
C36_SecondWriterDoesNotOverwrite ==
    /\ [][\A id \in 1..Len(schemaRegistry) :
            schemaRegistry[id].dataType # "TEXT" =>
                schemaRegistry'[id].dataType = schemaRegistry[id].dataType]_vars
    /\ [](\A p, q \in Callers :
            /\ MappingReturned(p) /\ MappingReturned(q)
            /\ calls[p].args[5] # "TEXT" /\ calls[q].args[5] # "TEXT"
            /\ <<calls[p].args[2], calls[p].args[3], calls[p].args[4]>>
                    = <<calls[q].args[2], calls[q].args[3], calls[q].args[4]>>
            => calls[p].local.dataType = StoredType(p))

-----------------------------------------------------------------------------
(* SpecStatus: the db-to-sheet jobs of one row, statement by statement of   *)
(* processJob, where updateSheetRow and each database write may throw.  The *)
(* change log is left aside.                                                *)

MaxStatusJobs == 2

StatusFrame == UNCHANGED <<pureVars, schemaVars, now, changeLog, s2dQueue, conflicts, lock, budget>>

\* the jobs of the row are waiting in the order they were enqueued, each with
\* the values the row had when its change was read
InitStatus ==
    /\ ProbesAside
    /\ now = 0
    /\ row = [val |-> MaxStatusJobs, syncStatus |-> "PENDING"]
    /\ sheet = 0
    /\ changeLog = <<>>
    /\ s2dQueue = <<>>
    /\ d2sJobs = [k \in 1..MaxStatusJobs |->
                    [values |-> k, attemptsMade |-> 0, state |-> "waiting", delivered |-> FALSE]]
    /\ conflicts = <<>>
    /\ lock = <<>>
    /\ budget = <<>>
    /\ SchemaAside

Running(j) == j.state \in {"updateSheetRow", "markSynced", "auditLog", "catch"}

\* a worker slot takes a waiting job
ProcessJobStart(k) ==
    /\ d2sJobs[k].state = "waiting"
    /\ Cardinality({i \in 1..Len(d2sJobs) : Running(d2sJobs[i])}) < WorkerConcurrency
    /\ d2sJobs' = [d2sJobs EXCEPT ![k].state = "updateSheetRow"]
    /\ UNCHANGED <<row, sheet>>
    /\ StatusFrame

\* await googleSheetsService.updateSheetRow(...), which writes the sheet or throws
ProcessJobUpdateSheetRow(k) ==
    /\ d2sJobs[k].state = "updateSheetRow"
    /\ \/ /\ sheet' = d2sJobs[k].values
          /\ d2sJobs' = [d2sJobs EXCEPT ![k].state = "markSynced", ![k].delivered = TRUE]
       \/ /\ sheet' = sheet
          /\ d2sJobs' = [d2sJobs EXCEPT ![k].state = "catch"]
    /\ row' = row
    /\ StatusFrame

\* UPDATE ... SET _sync_status = 'SYNCED', _synced_at = NOW(), or the statement throws
ProcessJobMarkSynced(k) ==
    /\ d2sJobs[k].state = "markSynced"
    /\ \/ /\ row' = [row EXCEPT !.syncStatus = "SYNCED"]
          /\ d2sJobs' = [d2sJobs EXCEPT ![k].state = "auditLog"]
       \/ /\ row' = row
          /\ d2sJobs' = [d2sJobs EXCEPT ![k].state = "catch"]
    /\ sheet' = sheet
    /\ StatusFrame

\* INSERT INTO sync_audit_log, after which the job completes, or the statement throws
ProcessJobAuditLog(k) ==
    /\ d2sJobs[k].state = "auditLog"
    /\ \/ d2sJobs' = [d2sJobs EXCEPT ![k].state = "completed"]
       \/ d2sJobs' = [d2sJobs EXCEPT ![k].state = "catch"]
    /\ UNCHANGED <<row, sheet>>
    /\ StatusFrame

\* catch: UPDATE ... SET _sync_status = 'ERROR'; throw error: the queue retries
\* the job while attempts remain
ProcessJobCatch(k) ==
    /\ d2sJobs[k].state = "catch"
    /\ row' = [row EXCEPT !.syncStatus = "ERROR"]
    /\ d2sJobs' = [d2sJobs EXCEPT
            ![k].attemptsMade = @ + 1,
            ![k].state = IF d2sJobs[k].attemptsMade + 1 < JobAttempts THEN "waiting" ELSE "failed"]
    /\ sheet' = sheet
    /\ StatusFrame

NextStatus ==
    \E k \in 1..MaxStatusJobs :
        \/ ProcessJobStart(k)
        \/ ProcessJobUpdateSheetRow(k)
        \/ ProcessJobMarkSynced(k)
        \/ ProcessJobAuditLog(k)
        \/ ProcessJobCatch(k)

SpecStatus == InitStatus /\ [][NextStatus]_vars

\* no job of the row is waiting or running
NoJobLeft == \A k \in 1..Len(d2sJobs) : d2sJobs[k].state \in {"completed", "failed"}

\* C37: when no job of the row is pending or active, _sync_status is SYNCED
\* exactly when the most recently enqueued job was delivered to the sheet, and
\* ERROR only if that job used up its attempts; a delivered row is not left
\* marked ERROR by a failure of the status or audit-log write.
C37_StatusReflectsLastJob ==
    NoJobLeft =>
        LET last == d2sJobs[Len(d2sJobs)]
        IN  /\ row.syncStatus = "SYNCED" <=> last.delivered
            /\ row.syncStatus = "ERROR" => last.state = "failed"
            /\ last.delivered => row.syncStatus # "ERROR"

-----------------------------------------------------------------------------
(* SpecLifecycle: startDbToSheetWorker and stopDbToSheetWorker.  Here arg   *)
(* is the module's variable worker (0 for null, else the number of a Worker *)
(* object), res lists the Worker objects ever created, and calls lists the  *)
(* calls in the order they were issued.                                     *)

MaxLifecycleCalls == 6

LifecycleFrame == UNCHANGED <<pc, sysVars, syncSheets, schemaRegistry, tables>>

\* let worker = null
InitLifecycle ==
    /\ arg = 0
    /\ res = <<>>
    /\ pc = "lifecycle"
    /\ EngineAside
    /\ syncSheets = <<>> /\ schemaRegistry = <<>> /\ tables = <<>>
    /\ calls = <<>>

\* startDbToSheetWorker runs to its end without awaiting
startDbToSheetWorker ==
    /\ Len(calls) < MaxLifecycleCalls
    /\ IF arg # 0
       THEN UNCHANGED <<arg, res>>
       ELSE /\ res' = Append(res, "running")
            /\ arg' = Len(res) + 1
    /\ calls' = Append(calls, [op |-> "start", state |-> "done", created |-> arg = 0])
    /\ LifecycleFrame

\* stopDbToSheetWorker up to await worker.close()
stopDbToSheetWorker ==
    /\ Len(calls) < MaxLifecycleCalls
    /\ IF arg = 0
       THEN /\ calls' = Append(calls, [op |-> "stop", state |-> "done", created |-> FALSE])
            /\ res' = res
       ELSE /\ calls' = Append(calls, [op |-> "stop", state |-> "closing", created |-> FALSE])
            /\ res' = [res EXCEPT ![arg] = "closing"]
    /\ arg' = arg
    /\ LifecycleFrame

\* worker.close() resolves: every stopDbToSheetWorker call awaiting it goes on
\* to worker = null and returns
CloseResolves ==
    /\ \E k \in 1..Len(calls) : calls[k].state = "closing"
    /\ res' = [w \in 1..Len(res) |-> IF res[w] = "closing" THEN "closed" ELSE res[w]]
    /\ arg' = 0
    /\ calls' = [k \in 1..Len(calls) |->
                    IF calls[k].state = "closing" THEN [calls[k] EXCEPT !.state = "done"]
                    ELSE calls[k]]
    /\ LifecycleFrame

NextLifecycle == startDbToSheetWorker \/ stopDbToSheetWorker \/ CloseResolves

SpecLifecycle == InitLifecycle /\ [][NextLifecycle]_vars

\* the Worker objects that have not been closed
LiveWorkers == {w \in 1..Len(res) : res[w] # "closed"}

\* C38: at most one worker exists; a start while a worker is running creates
\* none; and once every call has completed, a worker is running exactly when the
\* last call issued was a start.
C38_LastCallDecides ==
    /\ Cardinality(LiveWorkers) <= 1
    /\ \/ calls = <<>>
       \/ \E k \in 1..Len(calls) : calls[k].state # "done"
       \/ (\E w \in 1..Len(res) : res[w] = "running") <=> calls[Len(calls)].op = "start"

-----------------------------------------------------------------------------
(* SpecCleanup: sync_change_log under the daily cleanup event.  Here now    *)
(* counts days, budget is the AUTO_INCREMENT counter of the table and an    *)
(* entry carries its id, changed_at, processed and processed_at.            *)

CleanupRetentionDays == 7
MaxCleanupEntries == 2
MaxDays == 9

CleanupFrame ==
    UNCHANGED <<pureVars, schemaVars, row, sheet, s2dQueue, d2sJobs, conflicts, lock>>

InitCleanup ==
    /\ ProbesAside
    /\ now = 0
    /\ row = <<>> /\ sheet = 0 /\ s2dQueue = <<>> /\ d2sJobs = <<>>
    /\ conflicts = <<>> /\ lock = <<>>
    /\ changeLog = <<>>
    /\ budget = 0
    /\ SchemaAside

DayPasses ==
    /\ now < MaxDays
    /\ now' = now + 1
    /\ UNCHANGED <<changeLog, budget>>
    /\ CleanupFrame

\* a row changes outside the ingest pipeline: INSERT INTO sync_change_log with
\* processed FALSE and processed_at NULL by default
LogChange ==
    /\ budget < MaxCleanupEntries
    /\ changeLog' = Append(changeLog, [id |-> budget + 1, changedAt |-> now,
                                       processed |-> FALSE, processedAt |-> Null])
    /\ budget' = budget + 1
    /\ now' = now
    /\ CleanupFrame

\* the entry's change has been delivered: it is marked processed
MarkEntryProcessed(i) ==
    /\ i \in 1..Len(changeLog)
    /\ ~changeLog[i].processed
    /\ changeLog' = [changeLog EXCEPT ![i].processed = TRUE, ![i].processedAt = Num(now)]
    /\ UNCHANGED <<now, budget>>
    /\ CleanupFrame

\* the mutant of Expired: the age of the change decides
ExpiredByChangeAge(e, t) == e.changedAt < t - CleanupRetentionDays

\* WHERE processed = TRUE AND processed_at < DATE_SUB(NOW(), INTERVAL 7 DAY)
Expired(e, t) ==
    /\ e.processed
    /\ "num" \in DOMAIN e.processedAt
    /\ e.processedAt.num < t - CleanupRetentionDays

\* the event's DELETE FROM sync_change_log
cleanup_old_audit_logs ==
    /\ changeLog' = SelectSeq(changeLog, LAMBDA e : ~Expired(e, now))
    /\ UNCHANGED <<now, budget>>
    /\ CleanupFrame

NextCleanup ==
    \/ DayPasses
    \/ LogChange
    \/ \E i \in 1..MaxCleanupEntries : MarkEntryProcessed(i)
    \/ cleanup_old_audit_logs

SpecCleanup == InitCleanup /\ [][NextCleanup]_vars

\* the ids of the entries in the log
LogIds(log) == {log[i].id : i \in 1..Len(log)}

\* C39: an entry with processed = FALSE is still in sync_change_log after every
\* step; an entry that a step removes had processed = TRUE and a processed_at
\* more than 7 days old; and the processed flag of an entry that stays never goes
\* back to FALSE.
C39_UnprocessedNeverRemoved ==
    [][\A i \in 1..Len(changeLog) :
            LET e == changeLog[i]
            IN  /\ ~e.processed => e.id \in LogIds(changeLog')
                /\ e.id \notin LogIds(changeLog') =>
                        e.processed /\ e.processedAt.num < now - CleanupRetentionDays
                /\ e.processed =>
                        \A k \in 1..Len(changeLog') :
                            changeLog'[k].id = e.id => changeLog'[k].processed]_vars

\* the second entry has been cleaned up while the first, older and still
\* unprocessed, is in the log
C39_OldUnprocessedOutlivesCleanup ==
    /\ pc = "engine"
    /\ budget = 2
    /\ now > CleanupRetentionDays
    /\ LogIds(changeLog) = {1}
    /\ ~changeLog[1].processed
    /\ changeLog[1].changedAt = 0

=============================================================================
